---- MODULE Spec2Model ----
(***************************************************************************)
(* Grid state engine of perpdex-standx (src/grid/*.py) together with the   *)
(* StandX gateway (src/exchanges/standx_adapter.py).                       *)
(*                                                                         *)
(* Two asyncio tasks share trading_state:                                  *)
(*   "ws"  - the gateway's websocket task (_market_ws_loop), which awaits  *)
(*           the price / orders / positions callbacks one message at a     *)
(*           time;                                                         *)
(*   "ctl" - run_grid_trading: startup, then the 10 s control loop.        *)
(* A task runs atomically between two awaits, so every action below is one *)
(* resumption of a task: the answer to the gateway call it was waiting for *)
(* followed by the code up to the next gateway call.                       *)
(*                                                                         *)
(* Units: prices are integers in 1e-5 price units (PU), amounts in 1e-3    *)
(* base units, profits in PU * amount units.                               *)
(***************************************************************************)
EXTENDS Integers, Sequences, FiniteSets, TLC

\* ------------------------------------------------------------------ bounds
MaxId == 6          \* orders the exchange accepts during one run
MaxFills == 2       \* fills the market produces during one run
MaxIter == 1        \* control-loop iterations after which the run is cut
MaxQueue == 2       \* order events waiting in the websocket stream
MaxFailures == 1    \* gateway calls that fail during one run
MaxMoves == 2       \* moves of the market during one run
\* a long quiet run: more iterations, less market activity
LongIter == 7
LongFills == 1
LongMoves == 1
\* the gateway alone: adapter calls per run and requests that fail
MaxCalls == 2
MaxRequestFailures == 2
MaxMessages == 2    \* messages the stream delivers during one run
MaxRedeliveries == 1   \* fill events the stream delivers a second time

\* ------------------------------------------------- configuration (grid.py)
GRID_COUNT == 2
GRID_AMOUNT == 10            \* 0.01
GRID_SPREAD_BP == 150        \* GRID_SPREAD = 1.5 (percent) = 150 / 10000
MAX_TOTAL_ORDERS == 2
MAX_POSITION == 40           \* 0.04
ALER_POSITION == 30          \* 0.03
ATR_THRESHOLD == 700000      \* 7
PRICE_TICK == 10000          \* 0.1
QTY_STEP == 1                \* 0.001
RISK_PERIOD == 6             \* counter % 6
GRACE_SLEEPS == 6            \* 60 s of 10 s sleeps
RAPID_THRESHOLD == 1500000   \* 15.0

Tasks == {"ws", "ctl"}
Other(t) == IF t = "ws" THEN "ctl" ELSE "ws"

\* --------------------------------------------------------------- arithmetic
Abs(x) == IF x < 0 THEN -x ELSE x
Max2(a, b) == IF a >= b THEN a ELSE b
Min2(a, b) == IF a <= b THEN a ELSE b

\* Python round(x, n): nearest multiple of q, ties to the even multiple.
RoundTo(x, q) ==
    LET lo == (x \div q) * q
        r  == x - lo
    IN  IF 2 * r < q THEN lo
        ELSE IF 2 * r > q THEN lo + q
        ELSE IF (lo \div q) % 2 = 0 THEN lo ELSE lo + q

Round2(p) == RoundTo(p, 1000)      \* round(price, 2)
Round4(p) == RoundTo(p, 10)        \* round(price, 4)
Round2A(a) == RoundTo(a, 10)       \* round(amount, 2)

\* StandXAdapter._quantize_to_step: Decimal ROUND_HALF_UP to a multiple of step
QuantizeToStep(value, step) ==
    IF step <= 0 THEN value
    ELSE LET lo == (value \div step) * step
         IN  IF 2 * (value - lo) >= step THEN lo + step ELSE lo

\* truncation toward zero, Python int(a / b) for b > 0
IntDiv(a, b) == IF a >= 0 THEN a \div b ELSE -((-a) \div b)

\* ------------------------------------------------- Python dicts (ordered)
\* A dict is a sequence of records with a key field "id"; insertion order is
\* kept, assignment to an existing key keeps its position.
Range(s) == {s[i] : i \in 1..Len(s)}
Keys(d) == {d[i].id : i \in 1..Len(d)}
Has(d, k) == k \in Keys(d)
Values(d) == {d[i].price : i \in 1..Len(d)}
SetMax(S) == CHOOSE x \in S : \A y \in S : y <= x
SetMin(S) == CHOOSE x \in S : \A y \in S : x <= y
DictDel(d, k) == SelectSeq(d, LAMBDA e : e.id # k)
DictSet(d, k, p) ==
    IF Has(d, k)
    THEN [i \in 1..Len(d) |-> IF d[i].id = k THEN [id |-> k, price |-> p] ELSE d[i]]
    ELSE Append(d, [id |-> k, price |-> p])
DictDelAll(d, ks) == SelectSeq(d, LAMBDA e : e.id \notin ks)

\* sorted(d.items(), key=price, reverse=rev): stable insertion sort
RECURSIVE InsertSorted(_, _, _)
InsertSorted(s, e, rev) ==
    IF s = <<>> THEN <<e>>
    ELSE LET h == Head(s)
             before == IF rev THEN h.price >= e.price ELSE h.price <= e.price
         IN  IF before THEN <<h>> \o InsertSorted(Tail(s), e, rev)
             ELSE <<e>> \o s
RECURSIVE SortedItems(_, _)
SortedItems(d, rev) ==
    IF d = <<>> THEN <<>>
    ELSE InsertSorted(SortedItems(SubSeq(d, 1, Len(d) - 1), rev), d[Len(d)], rev)

\* ------------------------------------------------------------ market model
P0 == 100 * 100000           \* 100.00, the market price when the run starts
LevelGap == 150 * 1000       \* 1.50 between two market levels
\* the market levels of a run: the start price and one level on either side
MarketPrices == {P0 - LevelGap, P0, P0 + LevelGap}
\* 1-minute candles the gateway can report: a calm one (ATR 5, opened at the
\* start price) and, in a volatile run, one with ATR 14 that opened 20.0 away
\* from the start price, on the side from which a move to it is adverse
CalmCandle == [atr |-> 5 * 100000, open |-> P0]
VolatileCandle(is_ask) ==
    [atr |-> 14 * 100000, open |-> IF is_ask THEN P0 - 20 * 100000 ELSE P0 + 20 * 100000]
Candles(is_ask, volatile) ==
    IF volatile THEN {CalmCandle, VolatileCandle(is_ask)} ELSE {CalmCandle}
NoCandle == [atr |-> 0, open |-> -1]

VARIABLES
    OPEN_SIDE_IS_ASK,      \* grid_state.OPEN_SIDE_IS_ASK (DIRECTION = SHORT)
    ex,                    \* the exchange: market, resting orders, position, stream
    ts,                    \* grid_state.trading_state
    pc,                    \* where each task is suspended
    replenish_grid_lock,   \* grid_state.replenish_grid_lock: "free" or its holder
    lock_waiter,           \* the task queued on the lock, or "none"
    counter,               \* run_grid_trading: counter
    clock,                 \* what the code reads from time.time()
    loc,                   \* locals of the suspended coroutines, per task
    lim,                   \* what the environment does at most during this run
    hist,                  \* what parking has done so far (read by no action)
    gw,                    \* the gateway adapter: its working tick and the call in progress
    helper                 \* a helper function called on its own: arguments and result

vars == <<OPEN_SIDE_IS_ASK, ex, ts, pc, replenish_grid_lock, lock_waiter, counter,
          clock, loc, lim, hist, gw, helper>>

CLOSE_SIDE_IS_ASK == ~OPEN_SIDE_IS_ASK          \* configure_direction

\* The state a coroutine works on between two awaits.
World == [ex |-> ex, ts |-> ts, pc |-> pc, lock |-> replenish_grid_lock,
          waiter |-> lock_waiter, counter |-> counter, clock |-> clock, loc |-> loc,
          hist |-> hist]

Commit(w) ==
    /\ ex' = w.ex
    /\ ts' = w.ts
    /\ pc' = w.pc
    /\ replenish_grid_lock' = w.lock
    /\ lock_waiter' = w.waiter
    /\ counter' = w.counter
    /\ clock' = w.clock
    /\ loc' = w.loc
    /\ hist' = w.hist
    /\ UNCHANGED <<OPEN_SIDE_IS_ASK, lim, gw, helper>>

\* GridTradingState properties
open_orders(s) == IF OPEN_SIDE_IS_ASK THEN s.sell_orders ELSE s.buy_orders
close_orders(s) == IF OPEN_SIDE_IS_ASK THEN s.buy_orders ELSE s.sell_orders
open_orders_count(s) == Len(open_orders(s))
close_orders_count(s) == Len(close_orders(s))
Book(s, is_ask) == IF is_ask THEN s.sell_orders ELSE s.buy_orders
SetBook(s, is_ask, b) ==
    IF is_ask THEN [s EXCEPT !.sell_orders = b] ELSE [s EXCEPT !.buy_orders = b]

\* locals of the coroutines that survive an await
NoLoc == [ev |-> <<>>, filled_signal |-> FALSE, trade_price |-> 0, orders |-> <<>>,
          stage |-> "", nearest_open |-> 0, nearest_close |-> 0, avail |-> 0,
          cancel_orders |-> <<>>, cpass |-> 0, ret |-> "", base_price |-> 0,
          start |-> FALSE, placed |-> <<>>]

\* GridTradingState.__init__
GridTradingState ==
    [current_price |-> 0,                 \* None
     is_running |-> FALSE,
     buy_orders |-> <<>>, sell_orders |-> <<>>,
     original_open_prices |-> <<>>,
     base_grid_single_price |-> 0, active_grid_signle_price |-> 0,
     last_filled_order_is_close_side |-> TRUE,
     last_trade_price |-> 0, grid_pause |-> FALSE,
     grid_open_spread_alert |-> FALSE,
     current_position_size |-> 0, filled_count |-> 0,
     candle_stick_1m |-> NoCandle,
     pause_positions |-> <<>>, pause_orders |-> <<>>,
     pause_position_exist |-> FALSE,
     available_position_size |-> 0,
     active_profit |-> 0, total_profit |-> 0, available_reduce_profit |-> 0,
     recent_filled_order_ids |-> {},
     placing_pause_order |-> FALSE]

\* the exchange when the program starts on a fresh account: no resting order,
\* no position, no trade
Exchange0 ==
    [mkt |-> P0, orders |-> <<>>, pos |-> 0, nextId |-> 1, nfills |-> 0,
     nfail |-> 0, wsq |-> <<>>, lastTrade |-> 0, nmoves |-> 0, ndup |-> 0]
\* the exchange when the program is restarted on an account that holds a
\* position from an earlier run
ExchangeRestart == [Exchange0 EXCEPT !.pos = 2 * GRID_AMOUNT, !.lastTrade = P0]

\* what the environment does at most during a run: on a fresh account either
\* gateway calls fail or the market is volatile, after a restart neither
QuietRun ==
    [fills |-> MaxFills, moves |-> MaxMoves, failures |-> 0, iter |-> MaxIter,
     volatile |-> FALSE, redeliveries |-> 0]
Runs ==
    {[QuietRun EXCEPT !.failures = MaxFailures], [QuietRun EXCEPT !.volatile = TRUE]}
LongRun ==
    [fills |-> LongFills, moves |-> LongMoves, failures |-> 0, iter |-> LongIter,
     volatile |-> FALSE, redeliveries |-> 0]

\* parked: the ids of the orders _save_pause_position has placed; batches: the
\* batches it has placed since pause_position_exist was last reset by an
\* un-pause; rcancels: the cancel calls the current (or last) run of
\* check_current_orders has issued; rolled: the ids that calls of
\* place_multi_orders which reported failure had placed; seen: the market
\* price, the streamed price and the numbers of orders and fills the exchange
\* had seen when the current (or last) run of check_current_orders queried
\* the orders (env), and whether the 60 s after start_time were over,
\* available_position_size and grid_pause at that moment (read); last: the books as the last completed run left them, with what
\* that run had seen and whether the run before it had seen the same;
\* cancelled: the ids the gateway has cancelled; dropped: the ids that were in
\* buy_orders or sell_orders when a run of _sync_current_orders rebuilt them
\* and are not in the rebuilt books; risk: what the last run of _risk_check
\* decided on: whether a filter fired, whether the position was below
\* MAX_POSITION and whether the grid was paused
NoRisk == [run |-> FALSE, fire |-> FALSE, below |-> FALSE, paused |-> FALSE]
NoSeen == [env |-> <<>>, read |-> <<>>]
NoRun == [run |-> FALSE, seen |-> NoSeen]
History0 ==
    [parked |-> {}, batches |-> 0, rcancels |-> 0, rolled |-> {}, seen |-> NoSeen,
     last |-> NoRun, cancelled |-> {}, dropped |-> {}, risk |-> NoRisk]

\* StandXAdapter.__init__: no call in progress, the working tick price_tick
\* is the configured one, configured_tick.  ws_ready says that the stream
\* connection is up (subscribe returns once it is), connects counts the
\* connections made, nmsg the messages received and cb tells how the last
\* callback ended.  xt is the tick the exchange enforces, open the orders
\* resting there, pending those whose cancel it has accepted and not yet
\* carried out; the other fields are the locals of the call in progress and
\* ret its return value.
Gateway0 ==
    [pc |-> "idle", configured_tick |-> PRICE_TICK, price_tick |-> PRICE_TICK,
     xt |-> PRICE_TICK,
     open |-> {}, pending |-> {}, nfail |-> 0, ncalls |-> 0,
     price |-> 0, ladder |-> <<>>, i |-> 0, resp |-> "", rests |-> 0,
     ids |-> <<>>, fields |-> <<>>, idx |-> 0, key |-> "", all_single_ok |-> TRUE,
     polls |-> 0, ret |-> "none",
     ws_ready |-> TRUE, connects |-> 1, nmsg |-> 0, cb |-> ""]

\* the state after construction (GridTradingState.__init__, configure_direction)
\* no helper is being called on its own
NoCall == [fn |-> "none", done |-> FALSE]

InitProgram ==
    /\ OPEN_SIDE_IS_ASK \in BOOLEAN
    /\ ts = GridTradingState
    /\ pc = [ws |-> "idle", ctl |-> "start"]
    /\ replenish_grid_lock = "free"
    /\ lock_waiter = "none"
    /\ counter = 0
    /\ clock = [sleeps |-> 0, grace_over |-> FALSE, since_replenish |-> "long"]
    /\ loc = [t \in Tasks |-> NoLoc]
    /\ hist = History0

Init ==
    /\ InitProgram
    /\ gw = Gateway0
    /\ helper = NoCall
    /\ \/ ex = Exchange0 /\ lim \in Runs
       \/ ex = ExchangeRestart /\ lim = QuietRun

InitLong ==
    /\ InitProgram
    /\ gw = Gateway0
    /\ helper = NoCall
    /\ ex = ExchangeRestart
    /\ lim = LongRun

\* --------------------------------------------------------- the exchange side
\* an order event of the "order" channel after normalize_order_to_ccxt
\* (status "filled" is mapped to "closed")
OrderEvent(o, st) ==
    [id |-> o.id, is_ask |-> o.is_ask, price |-> o.price, amount |-> o.amount,
     status |-> st, filled |-> IF st = "closed" THEN o.amount ELSE 0]

Push(q, e) == IF Len(q) < MaxQueue THEN Append(q, e) ELSE q

\* the market moves by one level
MarketMove ==
    /\ ex.nmoves < lim.moves
    /\ \E p \in MarketPrices :
          /\ Abs(p - ex.mkt) = LevelGap
          /\ ex' = [ex EXCEPT !.mkt = p, !.nmoves = @ + 1]
    /\ UNCHANGED <<OPEN_SIDE_IS_ASK, ts, pc, replenish_grid_lock, lock_waiter, counter,
                   clock, loc, lim, hist, gw, helper>>

Crosses(o, m) == IF o.is_ask THEN m >= o.price ELSE m <= o.price

\* a resting order that the market has reached is filled in full and the
\* stream reports it
ExchangeFill ==
    /\ ex.nfills < lim.fills
    /\ Len(ex.wsq) < MaxQueue
    /\ \E i \in 1..Len(ex.orders) :
          LET o == ex.orders[i] IN
          /\ Crosses(o, ex.mkt)
          /\ ex' = [ex EXCEPT
                      !.orders = SelectSeq(ex.orders, LAMBDA x : x.id # o.id),
                      !.pos = IF o.is_ask = OPEN_SIDE_IS_ASK
                              THEN ex.pos + o.amount ELSE ex.pos - o.amount,
                      !.lastTrade = o.price,
                      !.nfills = ex.nfills + 1,
                      !.wsq = Append(ex.wsq, OrderEvent(o, "closed"))]
    /\ UNCHANGED <<OPEN_SIDE_IS_ASK, ts, pc, replenish_grid_lock, lock_waiter, counter,
                   clock, loc, lim, hist, gw, helper>>

\* The stream delivers at least once: a fill event that waits for its
\* delivery is sent a second time.
StreamRedelivers ==
    /\ ex.ndup < lim.redeliveries
    /\ Len(ex.wsq) < MaxQueue
    /\ \E i \in 1..Len(ex.wsq) :
          /\ ex.wsq[i].status = "closed"
          /\ ex' = [ex EXCEPT !.wsq = Append(@, @[i]), !.ndup = @ + 1]
    /\ UNCHANGED <<OPEN_SIDE_IS_ASK, ts, pc, replenish_grid_lock, lock_waiter, counter,
                   clock, loc, lim, hist, gw, helper>>

\* ------------------------------------------------------------------ the lock
\* asyncio.Lock.release: a waiting task is woken and is the next holder
Release(w, t) ==
    IF w.waiter = Other(t)
    THEN [w EXCEPT !.lock = Other(t), !.waiter = "none"]
    ELSE [w EXCEPT !.lock = "free"]

\* ------------------------------------------------------------ grid_risk.py
\* _get_current_pause_position: placeholder amounts whose price the market
\* has not reached yet
RECURSIVE PendingPause(_, _)
PendingPause(pp, cur) ==
    IF pp = <<>> THEN 0
    ELSE LET e == Head(pp)
             pending == IF ~OPEN_SIDE_IS_ASK THEN e.price > cur ELSE e.price < cur
         IN  (IF pending THEN e.amount ELSE 0) + PendingPause(Tail(pp), cur)

_get_current_pause_position(s) ==
    IF Len(s.pause_positions) = 0 THEN 0
    ELSE PendingPause(s.pause_positions, s.current_price)

\* ---------------------------------------------------------- grid_position.py
check_position_limits(s, position_size) ==
    LET s1 == [s EXCEPT !.current_position_size = position_size]
        s2 == [s1 EXCEPT !.available_position_size =
                  Round2A(position_size - _get_current_pause_position(s1))]
        s3 == IF position_size >= ALER_POSITION
              THEN [s2 EXCEPT !.grid_open_spread_alert = TRUE]
              ELSE [s2 EXCEPT !.grid_open_spread_alert = FALSE,
                              !.base_grid_single_price =
                                  IF Len(s2.original_open_prices) > 0
                                  THEN Abs(s2.original_open_prices[2]
                                           - s2.original_open_prices[1])
                                  ELSE @]
        s4 == IF position_size > MAX_POSITION
              THEN [s3 EXCEPT !.grid_pause = TRUE] ELSE s3
    IN  IF position_size = 0 THEN s2 ELSE s4

\* ------------------------------------------------ quant_grid_universal.py
\* is_rapid_market_move (grid_risk.py): the last candle moved against the
\* strategy by more than 15.0
is_rapid_market_move(candle, close) ==
    LET open_val == candle.open
        change == close - open_val
    IN  IF ~OPEN_SIDE_IS_ASK THEN change < -RAPID_THRESHOLD
        ELSE change > RAPID_THRESHOLD

ClampStep(raw_step, s) ==
    Max2(s.base_grid_single_price, Min2(raw_step, s.base_grid_single_price * 30))

on_market_stats_update(s, mark_price) ==
    LET s1 == [s EXCEPT !.current_price = mark_price]
    IN  IF s1.candle_stick_1m # NoCandle
           /\ is_rapid_market_move(s1.candle_stick_1m, mark_price)
        THEN [s1 EXCEPT !.active_grid_signle_price =
                 ClampStep((8 * Round2(s1.candle_stick_1m.atr)) \div 10, s1)]
        ELSE s1

on_account_all_positions_update(s, position) ==
    IF Len(s.original_open_prices) = 0 THEN s
    ELSE check_position_limits(s, Round2A(Abs(position)))

\* the websocket task dispatches a price message
WsPrice ==
    /\ pc.ws = "idle" /\ pc.ctl # "stopped"
    /\ ts' = on_market_stats_update(ts, ex.mkt)
    /\ ts' # ts
    /\ UNCHANGED <<OPEN_SIDE_IS_ASK, ex, pc, replenish_grid_lock, lock_waiter, counter,
                   clock, loc, lim, hist, gw, helper>>

\* the websocket task dispatches a position message
WsPosition ==
    /\ pc.ws = "idle" /\ pc.ctl # "stopped"
    /\ ts' = on_account_all_positions_update(ts, ex.pos)
    /\ ts' # ts
    /\ UNCHANGED <<OPEN_SIDE_IS_ASK, ex, pc, replenish_grid_lock, lock_waiter, counter,
                   clock, loc, lim, hist, gw, helper>>

\* ------------------------------------------------- StandXAdapter (gateway)
NoOrder == [is_ask |-> FALSE, price |-> -1, amount |-> 0]
Order(a, p, q) == [is_ask |-> a, price |-> p, amount |-> q]

\* place_single_order on the exchange side: the order rests at the price and
\* quantity formatted by _format_price / _format_qty, under a fresh cl_ord_id
RECURSIVE PlaceAll(_, _)
PlaceAll(e, orders) ==
    IF orders = <<>> THEN e
    ELSE LET o == Head(orders)
             r == [id |-> e.nextId, is_ask |-> o.is_ask,
                   price |-> QuantizeToStep(o.price, PRICE_TICK),
                   amount |-> QuantizeToStep(o.amount, QTY_STEP)]
         IN  PlaceAll([e EXCEPT !.orders = Append(@, r),
                                !.nextId = @ + 1,
                                !.wsq = Push(@, OrderEvent(r, "open"))],
                      Tail(orders))

CanPlace(e, n) == e.nextId + n - 1 <= MaxId

CanFail(e) == e.nfail < lim.failures
Failed(e) == IF CanFail(e) THEN [e EXCEPT !.nfail = @ + 1] ELSE e

\* place_single_order sends time_in_force "alo" (add liquidity only): the
\* exchange refuses an order that would trade at once, and place_multi_orders
\* then reports failure
Rejected(e, orders) ==
    \E i \in 1..Len(orders) :
       LET price == QuantizeToStep(orders[i].price, PRICE_TICK) IN
       IF orders[i].is_ask THEN price < e.mkt ELSE price > e.mkt

\* the exchange takes the batch
Accepts(e, orders) == CanPlace(e, Len(orders)) /\ ~Rejected(e, orders)

\* the gateway reports failure: the call fails, or the exchange refuses
Refuses(e, orders) == IF Accepts(e, orders) THEN Failed(e) ELSE e
NewIds(e, n) == [i \in 1..n |-> e.nextId + i - 1]

\* cancel_grid_orders on the exchange side, when it returns True
CancelAll(e, ids) ==
    [e EXCEPT !.orders = SelectSeq(@, LAMBDA o : o.id \notin Range(ids))]

\* ------------------------------------------------------------ grid_order.py
CACHE_MAX == 5000
\* _trim_id_cache: drops the first len(cache) - max_size entries of
\* list(cache).  The cache is a set, so these are any entries of that number.
Dropped(cache, excess) ==
    IF excess = 1 THEN {{key} : key \in cache}
    ELSE {d \in SUBSET cache : Cardinality(d) = excess}
\* a trim that drops nothing
NoTrim(cache, max_size) == {cache}
TrimResults(cache, max_size) ==
    IF Cardinality(cache) <= max_size THEN {cache}
    ELSE {cache \ d : d \in Dropped(cache, Cardinality(cache) - max_size)}
_trim_id_cache(cache) == CHOOSE c \in TrimResults(cache, CACHE_MAX) : TRUE

\* index of the entry nearest to price, the first one among equals
RECURSIVE NearestIdx(_, _, _, _)
NearestIdx(book, price, i, best) ==
    IF i > Len(book) THEN best
    ELSE IF best = 0 \/ Abs(book[i].price - price) < Abs(book[best].price - price)
         THEN NearestIdx(book, price, i + 1, i)
         ELSE NearestIdx(book, price, i + 1, best)

PopTolerance(s) == Max2(6 * s.base_grid_single_price, 6 * 100000)  \* 10 * max(0.6 step, 0.6)

\* a variant of _pop_order_from_books that reports every order as found
PopAlwaysFound(s, is_ask, order_ids, price) == [ok |-> TRUE, s |-> s]

\* a variant whose price fallback takes the nearest order at any distance
PopNearestAnyDistance(s, is_ask, order_ids, price) ==
    LET book == Book(s, is_ask)
        hits == {i \in 1..Len(order_ids) : Has(book, order_ids[i])}
    IN  IF hits # {}
        THEN [ok |-> TRUE, s |-> SetBook(s, is_ask, DictDel(book, order_ids[SetMin(hits)]))]
        ELSE IF book = <<>> THEN [ok |-> FALSE, s |-> s]
        ELSE LET n == NearestIdx(book, price, 1, 0) IN
             [ok |-> TRUE, s |-> SetBook(s, is_ask, DictDel(book, book[n].id))]

\* _pop_order_from_books: [ok, s] where s is the state after the removal
_pop_order_from_books(s, is_ask, order_ids, price) ==
    LET book == Book(s, is_ask)
        hits == {i \in 1..Len(order_ids) : Has(book, order_ids[i])}
    IN  IF hits # {}
        THEN [ok |-> TRUE, s |-> SetBook(s, is_ask, DictDel(book, order_ids[SetMin(hits)]))]
        ELSE IF book = <<>> THEN [ok |-> FALSE, s |-> s]
        ELSE LET n == NearestIdx(book, price, 1, 0) IN
             IF 10 * Abs(book[n].price - price) <= PopTolerance(s)
             THEN [ok |-> TRUE, s |-> SetBook(s, is_ask, DictDel(book, book[n].id))]
             ELSE [ok |-> FALSE, s |-> s]

\* an event filter that lets every order event through
NeverSkipped(s, e) == FALSE

\* check_order_fills, lines 160-166: events of non-grid orders are skipped
IsSkipped(s, e) == e.amount > GRID_AMOUNT \/ Has(s.pause_orders, e.id)

\* check_order_fills, lines 176-214: the section under the lock for one order
\* event; [replenish, s]
FillSection(s, e) ==
    LET is_close_side_order == (e.is_ask # OPEN_SIDE_IS_ASK)
        s1 == IF e.status = "open"
              THEN SetBook(s, e.is_ask, DictSet(Book(s, e.is_ask), e.id, e.price))
              ELSE s
    IN  IF e.status = "closed" /\ e.filled > 0
        THEN LET s2 == [s1 EXCEPT
                          !.filled_count = @ + 1,
                          !.last_trade_price = e.price,
                          !.recent_filled_order_ids = _trim_id_cache(@ \cup {e.id}),
                          !.last_filled_order_is_close_side = is_close_side_order]
                 pop == _pop_order_from_books(s2, e.is_ask, <<e.id>>, e.price)
                 s3 == pop.s
                 once_profit == s3.base_grid_single_price * GRID_AMOUNT
             IN  IF is_close_side_order /\ pop.ok
                 THEN [replenish |-> TRUE,
                       s |-> [s3 EXCEPT
                                !.available_position_size = Round2A(@ - GRID_AMOUNT),
                                !.active_profit = @ + once_profit,
                                !.total_profit = @ + once_profit,
                                !.available_reduce_profit = @ + once_profit]]
                 ELSE [replenish |-> pop.ok, s |-> s3]
        ELSE [replenish |-> FALSE, s |-> s1]

\* -------------------------------------------------------- grid_replenish.py
\* "multiplier = 1 if not OPEN_SIDE_IS_ASK else -1": the direction away from
\* the open side
Mult == IF ~OPEN_SIDE_IS_ASK THEN 1 ELSE -1

\* round(price * m / 10000, 2) without leaving 32-bit integers
MulBpRound2(price, m) ==
    LET q == price \div 10000
        r == price % 10000
        I == q * m + ((r * m) \div 10000)
        f == (r * m) % 10000
        lo == (I \div 1000) * 1000
        rem == (I % 1000) * 10000 + f
    IN  IF rem < 5000000 THEN lo
        ELSE IF rem > 5000000 THEN lo + 1000
        ELSE IF (lo \div 1000) % 2 = 0 THEN lo ELSE lo + 1000

\* a ladder whose first rung is the base price itself
LadderPriceFromBase(base_price, i, spread_bp) ==
    IF ~OPEN_SIDE_IS_ASK THEN MulBpRound2(base_price, 10000 - (i - 1) * spread_bp)
    ELSE MulBpRound2(base_price, 10000 + (i - 1) * spread_bp)

\* the i-th rung (i = 1..grid_count) of the initial ladder
LadderPrice(base_price, i, spread_bp) ==
    IF ~OPEN_SIDE_IS_ASK THEN MulBpRound2(base_price, 10000 - i * spread_bp)
    ELSE MulBpRound2(base_price, 10000 + i * spread_bp)

\* calculate_grid_prices: the ladder, sorted from low to high
calculate_grid_prices(current_price, grid_count, spread_bp) ==
    LET raw == [i \in 1..grid_count |->
                  [id |-> i, price |-> LadderPrice(current_price, i, spread_bp)]]
        srt == SortedItems(raw, FALSE)
    IN  [i \in 1..grid_count |-> srt[i].price]

\* a price-adjustment loop that never ends
Hang == -2

\* a variant of the adjustment loops that leaves the price as it is
StepPastNone(p, cur, step, up) == p

\* "while new_price >= current_price: new_price = round(new_price - step, 2)"
\* (up = FALSE) and its mirror image (up = TRUE)
RECURSIVE StepPast(_, _, _, _)
StepPast(p, cur, step, up) ==
    IF up
    THEN IF p <= cur
         THEN LET q == Round2(p + step) IN
              IF q <= p THEN Hang ELSE StepPast(q, cur, step, up)
         ELSE p
    ELSE IF p >= cur
         THEN LET q == Round2(p - step) IN
              IF q >= p THEN Hang ELSE StepPast(q, cur, step, up)
         ELSE p

\* nearest / furthest resting prices, None as -1
NearestOpen(s) ==
    IF open_orders_count(s) > 0
    THEN IF ~OPEN_SIDE_IS_ASK THEN SetMax(Values(open_orders(s)))
         ELSE SetMin(Values(open_orders(s)))
    ELSE -1
NearestClose(s) ==
    IF close_orders_count(s) > 0
    THEN IF ~OPEN_SIDE_IS_ASK THEN SetMin(Values(close_orders(s)))
         ELSE SetMax(Values(close_orders(s)))
    ELSE -1
FurthestOpen(s) ==
    IF open_orders_count(s) > 0
    THEN IF ~OPEN_SIDE_IS_ASK THEN SetMin(Values(open_orders(s)))
         ELSE SetMax(Values(open_orders(s)))
    ELSE -1
FurthestClose(s) ==
    IF close_orders_count(s) > 0
    THEN IF ~OPEN_SIDE_IS_ASK THEN SetMax(Values(close_orders(s)))
         ELSE SetMin(Values(close_orders(s)))
    ELSE -1

\* a variant that measures from the open rung nearest to the price
NextOpenFromNearest(s) ==
    LET step == s.active_grid_signle_price
        furthest_price == IF open_orders_count(s) > 0 THEN NearestOpen(s)
                          ELSE s.current_price - step * Mult
        new_price == Round2(furthest_price - step * Mult)
    IN  Order(OPEN_SIDE_IS_ASK,
              StepPast(new_price, s.current_price, step, OPEN_SIDE_IS_ASK),
              GRID_AMOUNT)

_calc_next_open_side_open_order(s) ==
    LET step == s.active_grid_signle_price
        furthest_price == IF open_orders_count(s) > 0 THEN FurthestOpen(s)
                          ELSE s.current_price - step * Mult
        new_price == Round2(furthest_price - step * Mult)
    IN  Order(OPEN_SIDE_IS_ASK,
              StepPast(new_price, s.current_price, step, OPEN_SIDE_IS_ASK),
              GRID_AMOUNT)

\* a variant without the distance check of lines 273-284
PairedCloseNoFallback(s, trade_price) ==
    LET base == s.base_grid_single_price
        nearest_close_price == IF close_orders_count(s) > 0 THEN NearestClose(s)
                               ELSE s.current_price + base * 2 * Mult
        p3 == Round2(nearest_close_price - base * Mult)
        p4 == IF trade_price > 0 THEN Round2(trade_price + base * Mult) ELSE p3
        safe == IF ~OPEN_SIDE_IS_ASK THEN s.current_price < p4
                ELSE s.current_price > p4
    IN  IF safe THEN Order(CLOSE_SIDE_IS_ASK, p4, GRID_AMOUNT) ELSE NoOrder

_calc_next_open_side_close_order(s, trade_price) ==
    LET base == s.base_grid_single_price
        nearest_close_price == IF close_orders_count(s) > 0 THEN NearestClose(s)
                               ELSE s.current_price + base * 2 * Mult
        nearest_open_price == IF open_orders_count(s) > 0 THEN NearestOpen(s)
                              ELSE s.current_price - base * Mult
        p3 == Round2(nearest_close_price - base * Mult)
        p4 == IF trade_price > 0 THEN Round2(trade_price + base * Mult) ELSE p3
        p5 == IF Abs(p4 - s.current_price) > base * 2
              THEN Round2(nearest_open_price
                          + (s.active_grid_signle_price + base) * Mult)
              ELSE p4
        safe == IF ~OPEN_SIDE_IS_ASK THEN s.current_price < p5
                ELSE s.current_price > p5
    IN  IF safe THEN Order(CLOSE_SIDE_IS_ASK, p5, GRID_AMOUNT) ELSE NoOrder

\* _on_open_side_filled up to the gateway call: the batch to place
OpenSideFilledOrders(s, trade_price) ==
    LET new_open_order ==
            IF ~s.grid_pause /\ open_orders_count(s) < GRID_COUNT
            THEN <<_calc_next_open_side_open_order(s)>> ELSE <<>>
        new_close_order == _calc_next_open_side_close_order(s, trade_price)
    IN  IF new_close_order = NoOrder THEN <<>>
        ELSE new_open_order \o <<new_close_order>>

_calc_next_close_side_open_order(s) ==
    LET nearest_open_price == IF open_orders_count(s) > 0 THEN NearestOpen(s)
                              ELSE s.current_price
    IN  Order(OPEN_SIDE_IS_ASK,
              Round2(nearest_open_price + s.active_grid_signle_price * Mult),
              GRID_AMOUNT)

_calc_next_close_side_close_order(s) ==
    LET furthest_close_price == IF close_orders_count(s) > 0 THEN FurthestClose(s)
                                ELSE s.current_price
    IN  Order(CLOSE_SIDE_IS_ASK,
              Round2(furthest_close_price + s.active_grid_signle_price * Mult),
              GRID_AMOUNT)

\* _on_close_side_filled up to the gateway call: the batch to place
CloseSideFilledOrders(s) ==
    LET new_open_order == IF ~s.grid_pause
                          THEN <<_calc_next_close_side_open_order(s)>> ELSE <<>>
        current_close_orders_volume == close_orders_count(s) * GRID_AMOUNT
        new_close_order ==
            IF s.available_position_size > current_close_orders_volume + GRID_AMOUNT
               /\ close_orders_count(s) > 0
            THEN <<_calc_next_close_side_close_order(s)>> ELSE <<>>
    IN  new_open_order \o new_close_order

\* _over_range_replenish_order, lines 434-463: the two reference prices
OverRangeNearestClose(s) ==
    IF close_orders_count(s) > 0 THEN NearestClose(s)
    ELSE s.current_price + s.active_grid_signle_price * 2 * Mult
OverRangeNearestOpen(s) ==
    IF open_orders_count(s) > 0 THEN NearestOpen(s)
    ELSE s.current_price - s.active_grid_signle_price * 2 * Mult

\* _over_range_replenish_open_order up to the gateway call
_over_range_replenish_open_order(s, nearest_open_price) ==
    LET new_price == Round2(nearest_open_price + s.active_grid_signle_price * Mult)
        crossing == IF ~OPEN_SIDE_IS_ASK THEN new_price >= s.current_price
                    ELSE new_price <= s.current_price
    IN  IF open_orders_count(s) < MAX_TOTAL_ORDERS
           /\ ~(~s.last_filled_order_is_close_side /\ open_orders_count(s) > 0
                /\ close_orders_count(s) > 0)
           /\ ~crossing
        THEN Order(OPEN_SIDE_IS_ASK, new_price, GRID_AMOUNT)
        ELSE NoOrder

\* _over_range_replenish_close_order up to the gateway call
_over_range_replenish_close_order(s, nearest_open_price) ==
    LET new_price == Round2(nearest_open_price + s.active_grid_signle_price * 2 * Mult)
        crossing == IF ~OPEN_SIDE_IS_ASK THEN new_price <= s.current_price
                    ELSE new_price >= s.current_price
    IN  IF ~(s.last_filled_order_is_close_side /\ close_orders_count(s) > 0)
           /\ ~crossing
        THEN Order(CLOSE_SIDE_IS_ASK, new_price, GRID_AMOUNT)
        ELSE NoOrder

\* _replenish_config_close_orders: the loop condition; avail is
\* available_position_size as read on entry (available_close_orders_count =
\* avail / GRID_AMOUNT)
ConfigCloseWanted(s, avail) ==
    /\ close_orders_count(s) < GRID_COUNT
    /\ s.available_position_size > close_orders_count(s) * GRID_AMOUNT
    /\ close_orders_count(s) * GRID_AMOUNT < avail

\* _replenish_config_close_orders: the rung of one loop iteration
ConfigCloseOrder(s) ==
    LET step == s.active_grid_signle_price
        nearest_open == IF open_orders_count(s) > 0 THEN NearestOpen(s)
                        ELSE s.current_price - step * Mult
        furthest_close_price == IF close_orders_count(s) > 0 THEN FurthestClose(s)
                                ELSE nearest_open + step * Mult
        new_price == Round2(furthest_close_price + step * Mult)
    IN  Order(CLOSE_SIDE_IS_ASK,
              StepPast(new_price, s.current_price, step, ~OPEN_SIDE_IS_ASK),
              GRID_AMOUNT)

\* lines 134-139, 341-346, 517-521, 566-570, 645-649: the placed orders are
\* entered in the side maps under the returned ids, at the requested prices
RECURSIVE Register(_, _, _)
Register(s, orders, ids) ==
    IF orders = <<>> \/ ids = <<>> THEN s
    ELSE LET o == Head(orders) IN
         Register(SetBook(s, o.is_ask, DictSet(Book(s, o.is_ask), Head(ids), o.price)),
                  Tail(orders), Tail(ids))

\* ------------------------------------------- replenish_grid, stage by stage
\* A coroutine suspended in a gateway call: pc is the call, loc.orders its
\* argument, loc.stage the place in replenish_grid it returns to.
Await(w, t, call, orders, stage) ==
    [w EXCEPT !.pc[t] = call, !.loc[t].orders = orders, !.loc[t].stage = stage]

\* the control task reaches "await asyncio.sleep(10)": a replenishment of the
\* websocket task that is less than 5 s old now is more than 5 s old when the
\* sleep is over
EnterSleep(w) ==
    [w EXCEPT !.pc["ctl"] = "sleep", !.loc["ctl"] = NoLoc,
              !.clock.since_replenish = IF @ = "short" THEN "before_sleep" ELSE @]

\* the end of the "async with replenish_grid_lock" block that called
\* replenish_grid: check_order_fills lines 219-221 for the websocket task,
\* run_grid_trading lines 449-455 for the control task
ReplenishDone(w, t) ==
    IF t = "ws"
    THEN Release([w EXCEPT !.clock.since_replenish = "short",
                           !.pc[t] = "idle", !.loc[t] = NoLoc], t)
    ELSE Release(EnterSleep([w EXCEPT !.counter = @ + 1]), t)

\* _replenish_config_close_orders: the head of the while loop
StageCfgLoop(w, t) ==
    IF ConfigCloseWanted(w.ts, w.loc[t].avail)
    THEN Await(w, t, "place", <<ConfigCloseOrder(w.ts)>>, "cfg")
    ELSE ReplenishDone(w, t)

\* replenish_grid lines 90-91
StageCfgEntry(w, t) ==
    IF w.ts.available_position_size > 0
    THEN StageCfgLoop([w EXCEPT !.loc[t].avail = w.ts.available_position_size], t)
    ELSE ReplenishDone(w, t)

\* _over_range_replenish_order lines 471-475
StageOverClose(w, t, nearest_close_price, nearest_open_price) ==
    LET s == w.ts
        o == _over_range_replenish_close_order(s, nearest_open_price)
    IN  IF 2 * Abs(nearest_close_price - s.current_price)
              > 3 * s.active_grid_signle_price
           /\ s.available_position_size > 0
           /\ o # NoOrder
        THEN Await(w, t, "place", <<o>>, "ovr_close")
        ELSE StageCfgEntry(w, t)

\* _over_range_replenish_order lines 431-469
StageOverRange(w, t) ==
    LET s == w.ts
        nearest_close_price == OverRangeNearestClose(s)
        nearest_open_price == OverRangeNearestOpen(s)
        gap == Abs(nearest_close_price - nearest_open_price)
        o == _over_range_replenish_open_order(s, nearest_open_price)
    IN  IF s.grid_pause \/ ~(2 * gap > 5 * s.active_grid_signle_price)
        THEN StageCfgEntry(w, t)
        ELSE IF 2 * Abs(s.current_price - nearest_open_price)
                   > 3 * s.active_grid_signle_price
                /\ o # NoOrder
             THEN Await([w EXCEPT !.loc[t].nearest_open = nearest_open_price,
                                  !.loc[t].nearest_close = nearest_close_price],
                        t, "place", <<o>>, "ovr_open")
             ELSE StageOverClose(w, t, nearest_close_price, nearest_open_price)

\* _on_close_side_filled
StageCloseFilled(w, t) ==
    LET orders == CloseSideFilledOrders(w.ts) IN
    IF ~w.ts.last_filled_order_is_close_side \/ orders = <<>>
    THEN StageOverRange(w, t)
    ELSE Await(w, t, "place", orders, "close_filled")

\* _on_open_side_filled
StageOpenFilled(w, t) ==
    LET orders == OpenSideFilledOrders(w.ts, w.loc[t].trade_price) IN
    IF w.ts.last_filled_order_is_close_side \/ orders = <<>>
    THEN StageCloseFilled(w, t)
    ELSE Await(w, t, "place", orders, "open_filled")

\* replenish_grid lines 79-87
ReplenishTry(w, t) ==
    IF w.loc[t].filled_signal THEN StageOpenFilled(w, t) ELSE StageOverRange(w, t)

\* where replenish_grid goes on after place_multi_orders / place_single_order
\* has answered
AfterPlace(w, t, success) ==
    LET stage == w.loc[t].stage IN
    IF stage = "open_filled" THEN StageCloseFilled(w, t)
    ELSE IF stage = "close_filled" THEN StageOverRange(w, t)
    ELSE IF stage = "ovr_open"
         THEN StageOverClose(w, t, w.loc[t].nearest_close, w.loc[t].nearest_open)
    ELSE IF stage = "ovr_close" THEN StageCfgEntry(w, t)
    ELSE IF success THEN StageCfgLoop(w, t) ELSE ReplenishDone(w, t)

\* place_multi_orders lines 367-373: place_single_order has placed the next
\* order of the batch of task t
PlacedNext(w, t) ==
    LET o == w.loc[t].orders[Len(w.loc[t].placed) + 1] IN
    [w EXCEPT !.ex = PlaceAll(w.ex, <<o>>),
              !.loc[t].placed = Append(@, w.ex.nextId)]

\* a variant of RolledBack in which the cancel request is never sent
RolledBackNothing(w, t, cancelled) ==
    [w EXCEPT !.hist.rolled = @ \cup Range(w.loc[t].placed), !.loc[t].placed = <<>>]

\* place_multi_orders lines 369-372: the cancel of the orders placed before
\* the failure has answered (its result is not read) and the call returns
\* (False, [])
RolledBack(w, t, cancelled) ==
    LET placed == w.loc[t].placed IN
    [w EXCEPT !.ex = IF cancelled THEN CancelAll(w.ex, placed) ELSE Failed(w.ex),
              !.hist.rolled = @ \cup Range(placed),
              !.hist.cancelled = IF cancelled THEN @ \cup Range(placed) ELSE @,
              !.loc[t].placed = <<>>]

\* the gateway answers one place_single_order of a placement of
\* replenish_grid: the order rests, and after the last order of the batch the
\* batch is entered in the side maps; or the order is refused, and the orders
\* placed before it are sent to cancel_grid_orders
PlaceResp(t) ==
    /\ pc[t] = "place"
    /\ LET orders == loc[t].orders
           k == Len(loc[t].placed) + 1
           w1 == PlacedNext(World, t)
           w2 == [World EXCEPT !.ex = Refuses(ex, <<orders[k]>>)]
       IN  \/ /\ Accepts(ex, <<orders[k]>>)
              /\ Commit(IF k < Len(orders) THEN w1
                        ELSE AfterPlace([w1 EXCEPT
                                           !.ts = Register(ts, orders, w1.loc[t].placed),
                                           !.loc[t].placed = <<>>],
                                        t, TRUE))
           \/ /\ CanFail(ex) \/ ~Accepts(ex, <<orders[k]>>)
              /\ Commit(IF k = 1 THEN AfterPlace(w2, t, FALSE)
                        ELSE [w2 EXCEPT !.pc[t] = "rollback"])

\* task t is inside _save_pause_position
Parking(w, t) ==
    w.pc[t] = "park" \/ (w.pc[t] = "rollback" /\ w.loc[t].stage \in {"park1", "park2"})

\* ------------------------------------------- grid_order.py: reconciliation
\* pause_positions[price] = amount (a dict keyed by price)
PauseSet(pp, price, amount) ==
    IF \E i \in 1..Len(pp) : pp[i].price = price
    THEN [i \in 1..Len(pp) |->
            IF pp[i].price = price THEN [price |-> price, amount |-> amount] ELSE pp[i]]
    ELSE Append(pp, [price |-> price, amount |-> amount])

\* _sync_current_orders, lines 479-513: the books are rebuilt from the list
\* the gateway returned (every listed order has status "open")
RECURSIVE SyncFold(_, _)
SyncFold(s, orders) ==
    IF orders = <<>> THEN s
    ELSE LET o == Head(orders)
             is_close_side_order == (o.is_ask = CLOSE_SIDE_IS_ASK)
         IN  IF is_close_side_order /\ o.amount > GRID_AMOUNT
             THEN SyncFold([s EXCEPT
                              !.pause_positions = PauseSet(@, o.price, o.amount),
                              !.pause_orders = Append(@, [id |-> o.id, price |-> o.price,
                                                          amount |-> o.amount])],
                           Tail(orders))
             ELSE SyncFold(SetBook(s, o.is_ask, DictSet(Book(s, o.is_ask), o.id, o.price)),
                           Tail(orders))

\* a sync that adds what the exchange lists to the books it finds
SyncOntoBooks(s, orders) ==
    SyncFold([s EXCEPT !.pause_positions = <<>>, !.pause_orders = <<>>], orders)

_sync_current_orders(s, orders) ==
    SyncFold([s EXCEPT !.buy_orders = <<>>, !.sell_orders = <<>>,
                       !.pause_positions = <<>>, !.pause_orders = <<>>], orders)

\* the ids in the books of s that the books of the rebuilt state s1 have lost
DroppedBy(s, s1) ==
    (Keys(s.buy_orders) \cup Keys(s.sell_orders))
       \ (Keys(s1.buy_orders) \cup Keys(s1.sell_orders))

\* the ids of the first n entries of a list of items
FirstIds(items, n) == [i \in 1..Min2(n, Len(items)) |-> items[i].id]

\* check_current_orders lines 320-344: open-side overflow
OpenOverflowCancels(s) ==
    IF open_orders_count(s) > GRID_COUNT + 1
    THEN FirstIds(SortedItems(open_orders(s), OPEN_SIDE_IS_ASK),
                  open_orders_count(s) - (GRID_COUNT + 1))
    ELSE <<>>

\* the close-side orders, furthest first, without the known placeholders
CloseFurthestFirst(s) ==
    SelectSeq(SortedItems(close_orders(s), ~OPEN_SIDE_IS_ASK),
              LAMBDA e : ~Has(s.pause_orders, e.id))

\* a variant of the overflow passes that finds nothing to cancel
NoOverflowFound(s) == <<>>

\* check_current_orders lines 347-372: close-side overflow
CloseOverflowCancels(s) ==
    IF close_orders_count(s) > MAX_TOTAL_ORDERS
    THEN FirstIds(CloseFurthestFirst(s), close_orders_count(s) - MAX_TOTAL_ORDERS + 2)
    ELSE <<>>

\* a variant of InventoryCancels that cancels one order fewer
InventoryCancelsShort(s, grace_over) ==
    LET cancel_count == close_orders_count(s)
                        - IntDiv(s.available_position_size, GRID_AMOUNT)
    IN  IF close_orders_count(s) * GRID_AMOUNT > s.available_position_size
           /\ grace_over /\ cancel_count > 0
        THEN FirstIds(CloseFurthestFirst(s), cancel_count - 1)
        ELSE <<>>

\* check_current_orders lines 375-405: close-side orders beyond the inventory
InventoryCancels(s, grace_over) ==
    LET cancel_count == close_orders_count(s)
                        - IntDiv(s.available_position_size, GRID_AMOUNT)
    IN  IF close_orders_count(s) * GRID_AMOUNT > s.available_position_size
           /\ grace_over /\ cancel_count > 0
        THEN FirstIds(CloseFurthestFirst(s), cancel_count)
        ELSE <<>>

\* a variant of _check_duplicate_orders that finds nothing
NoDuplicatesFound(orders) == <<>>

\* a duplicate check that keeps, of the orders at one rounded price, the one
\* with the lowest id
DuplicatesKeepLowestId(orders) ==
    LET dup == SelectSeq(orders,
                         LAMBDA e : \E j \in 1..Len(orders) :
                                       /\ Round4(orders[j].price) = Round4(e.price)
                                       /\ orders[j].id < e.id)
    IN  FirstIds(dup, Len(dup))

\* _check_duplicate_orders: every order whose price, rounded to 4 decimals, is
\* that of its predecessor in price order
_check_duplicate_orders(orders) ==
    LET sorted_orders == SortedItems(orders, FALSE)
        dup == SelectSeq([i \in 1..Len(sorted_orders) |->
                            [id |-> sorted_orders[i].id,
                             price |-> IF i > 1 /\ Round4(sorted_orders[i].price)
                                                   = Round4(sorted_orders[i - 1].price)
                                       THEN 1 ELSE 0]],
                         LAMBDA e : e.price = 1)
    IN  FirstIds(dup, Len(dup))

\* the cancel list of pruning pass k of check_current_orders
PassCancels(s, k, grace_over) ==
    IF k = 1 THEN OpenOverflowCancels(s)
    ELSE IF k = 2 THEN CloseOverflowCancels(s)
    ELSE IF k = 3 THEN InventoryCancels(s, grace_over)
    ELSE IF k = 4 THEN (IF s.grid_pause THEN FirstIds(s.buy_orders, Len(s.buy_orders))
                        ELSE <<>>)
    ELSE IF k = 5 THEN (IF s.grid_pause THEN FirstIds(s.sell_orders, Len(s.sell_orders))
                        ELSE <<>>)
    ELSE IF k = 6 THEN _check_duplicate_orders(s.buy_orders)
    ELSE _check_duplicate_orders(s.sell_orders)
LastPass == 7

\* a variant of CancelLocal that forgets the cancelled buy orders
CancelLocalSellsOnly(s, ids) == [s EXCEPT !.sell_orders = DictDelAll(@, Range(ids))]

\* a cancel that leaves the books as they are
CancelLocalNothing(s, ids) == s

\* _cancel_orders lines 451-456, after the gateway reported success
CancelLocal(s, ids) ==
    [s EXCEPT !.buy_orders = DictDelAll(@, Range(ids)),
              !.sell_orders = DictDelAll(@, Range(ids))]

\* ------------------------------------------------- grid_risk.py: parking
\* round(amount, 2) at line 315.  The halves the splitter produces for an odd
\* total lie on a decimal tie; their binary floating-point value is above the
\* tie for the totals 0.05 and 0.07 and below it for the larger odd totals.
HalfRoundsUp(total_position) == total_position \in {5 * GRID_AMOUNT, 7 * GRID_AMOUNT}
RoundAmount(amount, total_position) ==
    IF amount % 10 = 5
    THEN (IF HalfRoundsUp(total_position) THEN amount + 5 ELSE amount - 5)
    ELSE Round2A(amount)

\* a splitter that hands out orders of the minimum size only
SplitInMinimumOrders(total_position, grid_amount) ==
    [i \in 1..(total_position \div (2 * grid_amount)) |-> 2 * grid_amount]

\* _split_position_into_orders
RECURSIVE SplitFrom(_, _)
SplitFrom(remaining, grid_amount) ==
    LET min_order_size == grid_amount * 2
        max_order_size == grid_amount * 3
    IN  IF remaining <= 0 THEN <<>>
        ELSE IF remaining <= max_order_size THEN <<remaining>>
        ELSE IF remaining <= max_order_size + min_order_size
             THEN LET half == remaining \div 2 IN <<half, remaining - half>>
        ELSE <<min_order_size>> \o SplitFrom(remaining - min_order_size, grid_amount)

_split_position_into_orders(total_position, grid_amount) ==
    SplitFrom(total_position, grid_amount)

\* the rank of entry i when the amounts are sorted from large to small (stable)
SplitRank(amounts, i) ==
    Cardinality({j \in 1..Len(amounts) :
                    amounts[j] > amounts[i] \/ (amounts[j] = amounts[i] /\ j < i)})

\* _calculate_order_prices: price of entry i; the position offsets are
\* order_count / 2 - 0.5 - rank, the spacing price_step = active step *
\* (total / GRID_AMOUNT) / order_count
_calculate_order_prices(breakeven_price, s, total_position, amounts) ==
    LET n == Len(amounts)
        k == total_position \div GRID_AMOUNT
    IN  [i \in 1..n |->
           IF n = 1 THEN breakeven_price
           ELSE breakeven_price
                + IntDiv((n - 1 - 2 * SplitRank(amounts, i))
                         * s.active_grid_signle_price * k * Mult, 2 * n)]

RECURSIVE SumSeq(_)
SumSeq(q) == IF q = <<>> THEN 0 ELSE Head(q) + SumSeq(Tail(q))

\* _save_pause_position lines 236-340: the batch handed to place_multi_orders,
\* <<>> when the function returns without placing
ParkingOrders(s) ==
    LET total_position == s.available_position_size
        step == s.active_grid_signle_price
        breakeven_price == s.last_trade_price
                           + IntDiv((total_position * step) \div GRID_AMOUNT, 2) * Mult
        cur == s.last_trade_price
        safe_buffer == step \div 2
        split == _split_position_into_orders(total_position, GRID_AMOUNT)
        amounts == IF SumSeq(split) > total_position THEN <<total_position>> ELSE split
        prices == _calculate_order_prices(breakeven_price, s, total_position, amounts)
        lowest == SetMin(Range(prices))
        highest == SetMax(Range(prices))
        offset == IF ~OPEN_SIDE_IS_ASK
                  THEN (IF lowest <= cur THEN cur - lowest + safe_buffer ELSE 0)
                  ELSE (IF highest >= cur THEN -(highest - cur + safe_buffer) ELSE 0)
        final_price == IF ~OPEN_SIDE_IS_ASK
                       THEN (IF breakeven_price <= cur THEN cur + safe_buffer
                             ELSE breakeven_price)
                       ELSE (IF breakeven_price >= cur THEN cur - safe_buffer
                             ELSE breakeven_price)
        orders == IF total_position > GRID_AMOUNT * 4
                  THEN [i \in 1..Len(amounts) |->
                          Order(CLOSE_SIDE_IS_ASK, Round2(prices[i] + offset),
                                RoundAmount(amounts[i], total_position))]
                  ELSE <<Order(CLOSE_SIDE_IS_ASK, Round2(final_price),
                               Round2A(total_position))>>
        total_order_amount == SumSeq([i \in 1..Len(orders) |-> orders[i].amount])
    IN  IF s.pause_position_exist THEN <<>>
        ELSE IF total_position < GRID_AMOUNT THEN <<>>
        ELSE IF s.last_trade_price <= 0 THEN <<>>
        ELSE IF total_order_amount > s.available_position_size THEN <<>>
        ELSE orders

\* ------------------------------------------------ initialize_grid_trading
\* ret is the caller the coroutine returns to: "startup" (run_grid_trading
\* line 324) or "replenish" (replenish_grid line 75)
InitializeStart(w, t, ret) == [w EXCEPT !.pc[t] = "init_acct", !.loc[t].ret = ret]

\* replenish_grid lines 68-77
replenish_grid(w, t, filled_signal, trade_price) ==
    LET w1 == [w EXCEPT !.loc[t].filled_signal = filled_signal,
                        !.loc[t].trade_price = trade_price]
    IN  IF w.ts.grid_pause THEN ReplenishDone(w1, t)
        ELSE IF open_orders_count(w.ts) = 0 /\ close_orders_count(w.ts) = 0
             THEN InitializeStart(w1, t, "replenish")
        ELSE ReplenishTry(w1, t)

\* initialize_grid_trading returns to its caller
InitializeReturn(w, t, success) ==
    IF w.loc[t].ret = "startup"
    THEN IF success THEN EnterSleep(w)
         ELSE [w EXCEPT !.pc[t] = "stopped", !.loc[t] = NoLoc, !.ts.is_running = FALSE]
    ELSE IF success THEN ReplenishTry(w, t) ELSE ReplenishDone(w, t)

\* initialize_grid_trading lines 235-241: the base step read off the ladder
InitialStep(open_prices, base_price, spread_bp) ==
    IF Len(open_prices) > 1 THEN Abs(open_prices[2] - open_prices[1])
    ELSE (base_price * spread_bp) \div 10000

\* initialize_grid_trading lines 229-247
InitializeOk(w, t) ==
    LET base_price == w.loc[t].base_price
        open_prices == calculate_grid_prices(base_price, GRID_COUNT, GRID_SPREAD_BP)
        base_step == InitialStep(open_prices, base_price, GRID_SPREAD_BP)
    IN  InitializeReturn([w EXCEPT !.ts.base_grid_single_price = base_step,
                                   !.ts.active_grid_signle_price = base_step,
                                   !.ts.original_open_prices = open_prices,
                                   !.ts.is_running = TRUE], t, TRUE)

\* initialize_grid_trading lines 148-185: the account query has answered (a
\* failed positions query reads as no position)
InitAcctResp(t) ==
    /\ pc[t] = "init_acct"
    /\ \E ok \in BOOLEAN :
          /\ ok \/ CanFail(ex)
          /\ LET position_size == IF ok THEN Abs(ex.pos) ELSE 0 IN
             Commit([World EXCEPT
                       !.ex = IF ok THEN ex ELSE Failed(ex),
                       !.ts = check_position_limits(ts, position_size),
                       !.pc[t] = "init_trades"])

\* lines 201-210: base_price is read, then the order query is sent
InitPriceKnown(w, t) ==
    [w EXCEPT !.loc[t].base_price = w.ts.current_price, !.pc[t] = "init_sync"]

\* lines 185-198: the trade query has answered
InitTradesResp(t) ==
    /\ pc[t] = "init_trades"
    /\ \E ok \in BOOLEAN :
          /\ ok \/ CanFail(ex)
          /\ LET w == [World EXCEPT
                         !.ex = IF ok THEN ex ELSE Failed(ex),
                         !.ts.last_trade_price =
                             IF ok /\ ex.lastTrade > 0 THEN ex.lastTrade ELSE @]
             IN  Commit(IF ts.current_price = 0 THEN [w EXCEPT !.pc[t] = "init_wait"]
                        ELSE InitPriceKnown(w, t))

\* lines 191-198: the wait for the first price ends, with a price or after 10 s
InitWait(t) ==
    /\ pc[t] = "init_wait"
    /\ Commit(IF ts.current_price = 0 THEN InitializeReturn(World, t, FALSE)
              ELSE InitPriceKnown(World, t))

\* GridTrading.place_grid_orders: grid_count open-side orders below (LONG) or
\* above (SHORT) base_price, place_spread percent apart
place_grid_orders(base_price, grid_count, grid_amount, place_spread_bp) ==
    [i \in 1..grid_count |->
       Order(OPEN_SIDE_IS_ASK, LadderPrice(base_price, i, place_spread_bp), grid_amount)]

\* a variant that places the ladder on an account without grid orders also
\* when the grid is paused
InitSyncIgnoresPause(t) ==
    /\ pc[t] = "init_sync"
    /\ \E ok \in BOOLEAN :
          /\ ok \/ CanFail(ex)
          /\ LET s == _sync_current_orders(ts, IF ok THEN ex.orders ELSE <<>>)
                 w == [World EXCEPT !.ex = IF ok THEN ex ELSE Failed(ex), !.ts = s,
                                    !.hist.dropped = @ \cup DroppedBy(ts, s)]
             IN  Commit(IF open_orders_count(s) > 0 \/ close_orders_count(s) > 0
                        THEN InitializeOk(w, t)
                        ELSE [w EXCEPT !.pc[t] = "init_place"])

\* lines 210-227: the order query of _sync_current_orders has answered (a
\* failed query reads as an empty list)
InitSyncResp(t) ==
    /\ pc[t] = "init_sync"
    /\ \E ok \in BOOLEAN :
          /\ ok \/ CanFail(ex)
          /\ LET s == _sync_current_orders(ts, IF ok THEN ex.orders ELSE <<>>)
                 w == [World EXCEPT !.ex = IF ok THEN ex ELSE Failed(ex), !.ts = s,
                                    !.hist.dropped = @ \cup DroppedBy(ts, s)]
             IN  Commit(IF open_orders_count(s) > 0 \/ close_orders_count(s) > 0
                        THEN InitializeOk(w, t)
                        ELSE IF ~s.grid_pause THEN [w EXCEPT !.pc[t] = "init_place"]
                        ELSE InitializeOk(w, t))

\* lines 225-249: place_grid_orders has answered
InitPlaceResp(t) ==
    /\ pc[t] = "init_place"
    /\ LET place_spread == IF ts.grid_open_spread_alert THEN 2 * GRID_SPREAD_BP
                           ELSE GRID_SPREAD_BP
           orders == place_grid_orders(loc[t].base_price, GRID_COUNT, GRID_AMOUNT,
                                       place_spread)
       IN  \/ /\ Accepts(ex, orders)
              /\ Commit(InitializeOk([World EXCEPT !.ex = PlaceAll(ex, orders)], t))
           \/ /\ CanFail(ex) \/ ~Accepts(ex, orders)
              /\ Commit(InitializeReturn([World EXCEPT !.ex = Refuses(ex, orders)],
                                         t, FALSE))

\* ------------------------------------------- run_grid_trading: lock block
\* check_current_orders from pruning pass k on, then replenish_grid(False)
\* (run_grid_trading lines 451-452); the coroutine stops at the first pass
\* that has something to cancel
Seen(e, s) == <<e.mkt, s.current_price, e.nextId, e.nfills>>
Snapshot(w) ==
    [run |-> TRUE, buy_orders |-> w.ts.buy_orders, sell_orders |-> w.ts.sell_orders,
     pause_orders |-> w.ts.pause_orders, pause_positions |-> w.ts.pause_positions,
     seen |-> w.hist.seen, again |-> w.hist.last.seen = w.hist.seen]

RECURSIVE RunPasses(_, _)
RunPasses(w, k) ==
    IF k > LastPass THEN replenish_grid([w EXCEPT !.hist.last = Snapshot(w)], "ctl", FALSE, 0)
    ELSE LET c == PassCancels(w.ts, k, w.clock.grace_over) IN
         IF c = <<>> THEN RunPasses(w, k + 1)
         ELSE [w EXCEPT !.pc["ctl"] = "cancel", !.loc["ctl"].cancel_orders = c,
                        !.loc["ctl"].cpass = k, !.hist.rcancels = @ + 1]

\* a variant that reconciles and replenishes whatever the clock says
CtlLockedAlways(w) == [w EXCEPT !.pc["ctl"] = "sync"]

\* run_grid_trading lines 449-454 with the lock held
CtlLocked(w) ==
    IF w.clock.since_replenish = "long" THEN [w EXCEPT !.pc["ctl"] = "sync"]
    ELSE Release(EnterSleep([w EXCEPT !.counter = @ + 1]), "ctl")

\* "async with replenish_grid_lock" of the control task (line 449)
AfterRisk(w) ==
    IF w.lock = "free" THEN CtlLocked([w EXCEPT !.lock = "ctl"])
    ELSE [w EXCEPT !.pc["ctl"] = "lock_wait", !.waiter = "ctl"]

\* ------------------------------------------------------------- _risk_check
\* _risk_check returns to run_grid_trading: line 324 at startup, line 449 in
\* the loop
RiskDone(w) ==
    IF w.loc["ctl"].start
    THEN InitializeStart([w EXCEPT !.loc["ctl"].start = FALSE], "ctl", "startup")
    ELSE AfterRisk(w)

\* _save_pause_position gets as far as place_multi_orders
WillPark(s) == ~s.placing_pause_order /\ ParkingOrders(s) # <<>>

\* _save_pause_position lines 232-342: the flag is set and the batch is sent
ParkAwait(w, stage) ==
    Await([w EXCEPT !.ts.placing_pause_order = TRUE], "ctl", "park",
          ParkingOrders(w.ts), stage)

\* _risk_check lines 71-76
RiskTrailing(w) ==
    IF w.ts.grid_pause /\ w.ts.available_position_size > GRID_AMOUNT /\ WillPark(w.ts)
    THEN ParkAwait(w, "park2")
    ELSE RiskDone(w)

\* _risk_check lines 58-76; fire is "is_adverse or is_ema_filter"
\* a variant in which a firing filter pauses the grid only at startup
RiskCheckPausesAtStart(w, fire, start) ==
    LET s == w.ts
        s1 == IF fire
              THEN [s EXCEPT !.grid_pause = IF start THEN TRUE ELSE @,
                             !.pause_position_exist = IF start THEN TRUE ELSE @]
              ELSE IF s.current_position_size < MAX_POSITION
                   THEN [s EXCEPT !.grid_pause = FALSE, !.pause_position_exist = FALSE]
                   ELSE s
        w1 == [w EXCEPT !.ts = s1,
                        !.hist.risk = [run |-> TRUE, fire |-> fire,
                                       below |-> s.current_position_size < MAX_POSITION,
                                       paused |-> s.grid_pause]]
    IN  RiskTrailing(w1)

_risk_check(w, fire, start) ==
    LET s == w.ts
        s1 == IF fire
              THEN [s EXCEPT !.grid_pause = TRUE,
                             !.pause_position_exist = IF start THEN TRUE ELSE @]
              ELSE IF s.current_position_size < MAX_POSITION
                   THEN [s EXCEPT !.grid_pause = FALSE, !.pause_position_exist = FALSE]
                   ELSE s
        w1 == [w EXCEPT !.ts = s1,
                        !.hist.batches = IF ~fire /\ s.current_position_size < MAX_POSITION
                                         THEN 0 ELSE @,
                        !.hist.risk = [run |-> TRUE, fire |-> fire,
                                       below |-> s.current_position_size < MAX_POSITION,
                                       paused |-> s.grid_pause]]
    IN  IF fire /\ ~start /\ ~s.pause_position_exist /\ WillPark(s1)
        THEN ParkAwait(w1, "park1")
        ELSE RiskTrailing(w1)

\* run_grid_trading lines 322-324: the startup risk check
CtlStart ==
    /\ pc.ctl = "start"
    /\ \E fire \in BOOLEAN :
          Commit(_risk_check([World EXCEPT !.loc["ctl"].start = TRUE], fire, TRUE))

\* the 15-minute candles of a periodic risk check have arrived
RiskResp ==
    /\ pc.ctl = "risk"
    /\ \E fire \in BOOLEAN : Commit(_risk_check(World, fire, FALSE))

\* a variant of ParkResp that does not record that the placeholders exist
ParkRespForgets ==
    /\ pc.ctl = "park"
    /\ LET orders == loc.ctl.orders
           n == Len(orders)
           cont(w) == IF loc.ctl.stage = "park1" THEN RiskTrailing(w) ELSE RiskDone(w)
           k == Len(loc.ctl.placed) + 1
           w1 == PlacedNext(World, "ctl")
           w2 == [World EXCEPT !.ex = Refuses(ex, <<orders[k]>>)]
       IN  \/ /\ Accepts(ex, <<orders[k]>>)
              /\ Commit(IF k < n THEN w1
                        ELSE cont([w1 EXCEPT
                                     !.hist.parked = @ \cup Range(w1.loc.ctl.placed),
                                     !.hist.batches = @ + 1,
                                     !.loc["ctl"].placed = <<>>,
                                     !.ts.available_position_size = 0,
                                     !.ts.placing_pause_order = FALSE]))
           \/ /\ CanFail(ex) \/ ~Accepts(ex, <<orders[k]>>)
              /\ Commit(IF k = 1 THEN cont([w2 EXCEPT !.ts.placing_pause_order = FALSE])
                        ELSE [w2 EXCEPT !.pc["ctl"] = "rollback"])

\* _save_pause_position lines 342-352: place_multi_orders has answered
ParkResp ==
    /\ pc.ctl = "park"
    /\ LET orders == loc.ctl.orders
           n == Len(orders)
           cont(w) == IF loc.ctl.stage = "park1" THEN RiskTrailing(w) ELSE RiskDone(w)
           k == Len(loc.ctl.placed) + 1
           w1 == PlacedNext(World, "ctl")
           w2 == [World EXCEPT !.ex = Refuses(ex, <<orders[k]>>)]
       IN  \/ /\ Accepts(ex, <<orders[k]>>)
              /\ Commit(IF k < n THEN w1
                        ELSE cont([w1 EXCEPT
                                     !.hist.parked = @ \cup Range(w1.loc.ctl.placed),
                                     !.hist.batches = @ + 1,
                                     !.loc["ctl"].placed = <<>>,
                                     !.ts.pause_position_exist = TRUE,
                                     !.ts.available_position_size = 0,
                                     !.ts.placing_pause_order = FALSE]))
           \/ /\ CanFail(ex) \/ ~Accepts(ex, <<orders[k]>>)
              /\ Commit(IF k = 1 THEN cont([w2 EXCEPT !.ts.placing_pause_order = FALSE])
                        ELSE [w2 EXCEPT !.pc["ctl"] = "rollback"])

\* place_multi_orders line 371: cancel_grid_orders(placed_ids) has answered;
\* the caller is replenish_grid or, for a batch of placeholders,
\* _save_pause_position (lines 346-352)
RollbackResp(t) ==
    /\ pc[t] = "rollback"
    /\ \E cancelled \in BOOLEAN :
          /\ cancelled \/ CanFail(ex)
          /\ LET w == RolledBack(World, t, cancelled)
                 w1 == [w EXCEPT !.ts.placing_pause_order = FALSE]
             IN  Commit(IF ~Parking(World, t) THEN AfterPlace(w, t, FALSE)
                        ELSE IF loc[t].stage = "park1" THEN RiskTrailing(w1)
                        ELSE RiskDone(w1))

\* --------------------------------------------- run_grid_trading: the loop
\* line 332: the 10 s sleep is over and the account query is sent
Sleep ==
    /\ pc.ctl = "sleep"
    /\ ts.is_running
    /\ counter < lim.iter
    /\ clock' = [sleeps |-> Min2(clock.sleeps + 1, GRACE_SLEEPS),
                 grace_over |-> clock.grace_over \/ clock.sleeps + 1 >= GRACE_SLEEPS,
                 since_replenish |-> IF clock.since_replenish = "before_sleep"
                                     THEN "long" ELSE clock.since_replenish]
    /\ pc' = [pc EXCEPT !.ctl = "acct"]
    /\ UNCHANGED <<OPEN_SIDE_IS_ASK, ex, ts, replenish_grid_lock, lock_waiter, counter,
                   loc, lim, hist, gw, helper>>

\* 5 s pass after the last replenishment of the websocket task, before the
\* control task reads the clock at line 450
TimePasses ==
    /\ clock.since_replenish # "long"
    /\ pc.ctl \in {"candle", "risk", "park", "lock_wait"} \/ Parking(World, "ctl")
    /\ clock' = [clock EXCEPT !.since_replenish = "long"]
    /\ UNCHANGED <<OPEN_SIDE_IS_ASK, ex, ts, pc, replenish_grid_lock, lock_waiter,
                   counter, loc, lim, hist, gw, helper>>

\* lines 335-367: the account query has answered
AcctResp ==
    /\ pc.ctl = "acct"
    /\ \E ok \in BOOLEAN :
          /\ ok \/ CanFail(ex)
          /\ LET position_size == IF ok THEN Round2A(Abs(ex.pos)) ELSE 0 IN
             Commit([World EXCEPT
                       !.ex = IF ok THEN ex ELSE Failed(ex),
                       !.ts = check_position_limits(ts, position_size),
                       !.pc["ctl"] = "candle"])

\* lines 419-440: the active step follows the ATR of the 1-minute candles
StepFromAtr(s, atr_value) ==
    IF atr_value > ATR_THRESHOLD
    THEN [s EXCEPT !.active_grid_signle_price = ClampStep((7 * Round2(atr_value)) \div 10, s)]
    ELSE [s EXCEPT !.active_grid_signle_price =
              IF s.grid_open_spread_alert THEN s.base_grid_single_price * 2
              ELSE s.base_grid_single_price]

\* lines 408-449: the 1-minute candles have arrived
CandleResp ==
    /\ pc.ctl = "candle"
    /\ \E cs_1m \in Candles(OPEN_SIDE_IS_ASK, lim.volatile) \cup {NoCandle} :
          /\ cs_1m = NoCandle => CanFail(ex)
          /\ LET s1 == [ts EXCEPT !.candle_stick_1m = cs_1m]
                 s2 == IF s1.current_price # 0 THEN StepFromAtr(s1, cs_1m.atr) ELSE s1
                 w == [World EXCEPT !.ts = s2,
                                    !.ex = IF cs_1m = NoCandle THEN Failed(ex) ELSE ex]
             IN  Commit(IF counter % RISK_PERIOD = 0 THEN [w EXCEPT !.pc["ctl"] = "risk"]
                        ELSE AfterRisk(w))

\* the order query of check_current_orders has answered (a failed query reads
\* as an empty list); over: more than 60 s have passed since start_time, which
\* is certain after GRACE_SLEEPS sleeps and is read by the inventory pass only
SyncResp ==
    /\ pc.ctl = "sync"
    /\ \E ok, over \in BOOLEAN :
          /\ ok \/ CanFail(ex)
          /\ LET s == _sync_current_orders(ts, IF ok THEN ex.orders ELSE <<>>)
                 read == close_orders_count(s) * GRID_AMOUNT > s.available_position_size
             IN  /\ clock.grace_over => over
                 /\ (~clock.grace_over /\ ~read) => ~over
                 /\ Commit(RunPasses([World EXCEPT
                                        !.ex = IF ok THEN ex ELSE Failed(ex),
                                        !.ts = s,
                                        !.hist.rcancels = 0,
                                        !.hist.dropped = @ \cup DroppedBy(ts, s),
                                        !.hist.seen =
                                            [env |-> Seen(ex, ts),
                                             read |-> <<over, s.available_position_size,
                                                        s.grid_pause>>],
                                        !.clock.grace_over = over], 1))

\* _cancel_orders: cancel_grid_orders has answered
CancelResp ==
    /\ pc.ctl = "cancel"
    /\ LET ids == loc.ctl.cancel_orders
           k == loc.ctl.cpass
       IN  \/ Commit(RunPasses([World EXCEPT !.ex = CancelAll(ex, ids),
                                             !.ts = CancelLocal(ts, ids),
                                             !.hist.cancelled = @ \cup Range(ids)],
                                k + 1))
           \/ /\ CanFail(ex)
              /\ Commit(RunPasses([World EXCEPT !.ex = Failed(ex)], k + 1))

\* ------------------------------------------------------- check_order_fills
\* lines 215-221: the second lock block, replenish_grid(True, price)
WsReplenish(w) ==
    replenish_grid(w, "ws", TRUE, w.loc["ws"].ev.price)

\* a variant that asks for the second lock block inside the first one
WsLockedNested(w) ==
    LET r == FillSection(w.ts, w.loc["ws"].ev)
        w1 == [w EXCEPT !.ts = r.s]
    IN  IF ~r.replenish
        THEN Release([w1 EXCEPT !.pc["ws"] = "idle", !.loc["ws"] = NoLoc], "ws")
        ELSE [w1 EXCEPT !.pc["ws"] = "lock_wait2", !.waiter = "ws"]

\* lines 176-221 from the first lock block on, with the lock held
WsLocked(w) ==
    LET r == FillSection(w.ts, w.loc["ws"].ev)
        w1 == Release([w EXCEPT !.ts = r.s], "ws")
    IN  IF ~r.replenish THEN [w1 EXCEPT !.pc["ws"] = "idle", !.loc["ws"] = NoLoc]
        ELSE IF w1.lock = "free" THEN WsReplenish([w1 EXCEPT !.lock = "ws"])
        ELSE [w1 EXCEPT !.pc["ws"] = "lock_wait2", !.waiter = "ws"]

\* on_account_all_orders_update: the websocket task dispatches an order event
WsOrder ==
    /\ pc.ws = "idle" /\ pc.ctl # "stopped"
    /\ ex.wsq # <<>>
    /\ LET e == Head(ex.wsq)
           w == [World EXCEPT !.ex.wsq = Tail(ex.wsq)]
       IN  Commit(IF IsSkipped(ts, e) THEN w
                  ELSE IF w.lock = "free"
                       THEN WsLocked([w EXCEPT !.lock = "ws", !.loc["ws"].ev = e])
                  ELSE [w EXCEPT !.pc["ws"] = "lock_wait", !.waiter = "ws",
                                 !.loc["ws"].ev = e])

\* a task waiting for replenish_grid_lock has been handed the lock
LockGranted(t) ==
    /\ replenish_grid_lock = t
    /\ pc[t] \in {"lock_wait", "lock_wait2"}
    /\ Commit(IF t = "ctl" THEN CtlLocked(World)
              ELSE IF pc[t] = "lock_wait" THEN WsLocked(World)
              ELSE WsReplenish(World))

Next ==
    \/ MarketMove
    \/ ExchangeFill
    \/ TimePasses
    \/ WsPrice
    \/ WsPosition
    \/ WsOrder
    \/ \E t \in Tasks : LockGranted(t)
    \/ \E t \in Tasks : PlaceResp(t)
    \/ \E t \in Tasks : RollbackResp(t)
    \/ \E t \in Tasks : InitAcctResp(t)
    \/ \E t \in Tasks : InitTradesResp(t)
    \/ \E t \in Tasks : InitWait(t)
    \/ \E t \in Tasks : InitSyncResp(t)
    \/ \E t \in Tasks : InitPlaceResp(t)
    \/ CtlStart
    \/ Sleep
    \/ AcctResp
    \/ CandleResp
    \/ RiskResp
    \/ ParkResp
    \/ SyncResp
    \/ CancelResp

Spec == Init /\ [][Next]_vars

SpecLong == InitLong /\ [][Next]_vars

\* a quiet run in which the stream repeats fill events
RedeliveryRun == [QuietRun EXCEPT !.redeliveries = MaxRedeliveries]

\* the exchange when the program is restarted on an account that holds
\* MAX_POSITION and has two open-side orders of the earlier run resting, one
\* and two levels from the start price
ExchangeAtLimit ==
    [Exchange0 EXCEPT
       !.pos = MAX_POSITION, !.lastTrade = P0, !.nextId = 3,
       !.orders = <<[id |-> 1, is_ask |-> OPEN_SIDE_IS_ASK,
                     price |-> P0 - Mult * LevelGap, amount |-> GRID_AMOUNT],
                    [id |-> 2, is_ask |-> OPEN_SIDE_IS_ASK,
                     price |-> P0 - 2 * Mult * LevelGap, amount |-> GRID_AMOUNT]>>]

\* such a run on a fresh account or after a restart at the position limit
InitRedelivery ==
    /\ InitProgram
    /\ gw = Gateway0
    /\ helper = NoCall
    /\ ex \in {Exchange0, ExchangeAtLimit}
    /\ lim = RedeliveryRun

NextRedelivery ==
    \/ Next
    \/ StreamRedelivers

SpecRedelivery == InitRedelivery /\ [][NextRedelivery]_vars

\* the exchange when the program is restarted on an account whose inventory
\* an earlier run has parked: one placeholder order of two grid amounts rests
\* on the close side, two levels from the start price
ExchangeParked ==
    [Exchange0 EXCEPT
       !.pos = 2 * GRID_AMOUNT, !.lastTrade = P0, !.nextId = 2,
       !.orders = <<[id |-> 1, is_ask |-> CLOSE_SIDE_IS_ASK,
                     price |-> P0 + 2 * Mult * LevelGap, amount |-> 2 * GRID_AMOUNT]>>]

\* the exchange when the program is restarted with one close-side grid order
\* of the earlier run resting, one level from the start price
ExchangeGridOrder ==
    [Exchange0 EXCEPT
       !.pos = GRID_AMOUNT, !.lastTrade = P0, !.nextId = 2,
       !.orders = <<[id |-> 1, is_ask |-> CLOSE_SIDE_IS_ASK,
                     price |-> P0 + Mult * LevelGap, amount |-> GRID_AMOUNT]>>]

\* a quiet run started on each kind of account
InitStartup ==
    /\ InitProgram
    /\ gw = Gateway0
    /\ helper = NoCall
    /\ ex \in {Exchange0, ExchangeParked, ExchangeGridOrder}
    /\ lim = QuietRun

SpecStartup == InitStartup /\ [][Next]_vars

\* ------------------------------------------------- the run under scheduling
\* A short run in which the event loop keeps its promises: a coroutine that is
\* ready to run is run (asyncio calls the ready callbacks in turn, and a
\* released lock wakes the first waiter), and every gateway call returns, with
\* an answer or with a failure after its timeout.  The market, the stream's
\* price and position messages and the clock owe nothing.
LiveFills == 1
LiveMoves == 1
LiveRun ==
    [fills |-> LiveFills, moves |-> LiveMoves, failures |-> MaxFailures, iter |-> MaxIter,
     volatile |-> FALSE, redeliveries |-> 0]

InitLive ==
    /\ InitProgram
    /\ gw = Gateway0
    /\ helper = NoCall
    /\ ex = Exchange0
    /\ lim = LiveRun

\* the steps of the websocket task on an order update (check_order_fills)
WsStep ==
    \/ WsOrder
    \/ LockGranted("ws")
    \/ PlaceResp("ws")
    \/ RollbackResp("ws")
    \/ InitAcctResp("ws")
    \/ InitTradesResp("ws")
    \/ InitWait("ws")
    \/ InitSyncResp("ws")
    \/ InitPlaceResp("ws")

\* the steps of the control task (run_grid_trading) other than the end of
\* its sleep
CtlStep ==
    \/ CtlStart
    \/ AcctResp
    \/ CandleResp
    \/ RiskResp
    \/ ParkResp
    \/ SyncResp
    \/ CancelResp
    \/ LockGranted("ctl")
    \/ PlaceResp("ctl")
    \/ RollbackResp("ctl")
    \/ InitAcctResp("ctl")
    \/ InitTradesResp("ctl")
    \/ InitWait("ctl")
    \/ InitSyncResp("ctl")
    \/ InitPlaceResp("ctl")

\* where the tasks can take these steps: an order update waits for the idle
\* websocket task, a queued task has been handed the lock, or the gateway call
\* a task awaits is in progress
InCall == {"place", "rollback", "init_acct", "init_trades", "init_wait", "init_sync",
           "init_place"}
WsReady ==
    \/ pc.ws = "idle" /\ pc.ctl # "stopped" /\ ex.wsq # <<>>
    \/ pc.ws \in {"lock_wait", "lock_wait2"} /\ replenish_grid_lock = "ws"
    \/ pc.ws \in InCall
CtlReady ==
    \/ pc.ctl \in {"start", "acct", "candle", "risk", "park", "sync", "cancel"}
    \/ pc.ctl = "lock_wait" /\ replenish_grid_lock = "ctl"
    \/ pc.ctl \in InCall

\* weak fairness of the steps of each task, with the enabling conditions
\* WsReady and CtlReady written out, and of the end of the sleep
Scheduling ==
    /\ WF_vars(Sleep)
    /\ []<>(~WsReady) \/ []<><<WsStep>>_vars
    /\ []<>(~CtlReady) \/ []<><<CtlStep>>_vars

SpecLive == InitLive /\ [][Next]_vars /\ Scheduling


\* ================================================= the gateway adapter alone
\* StandXAdapter.place_single_order and cancel_grid_orders request by request,
\* against an exchange that enforces a price tick, may refuse or time out a
\* request, and may accept a cancel before it takes the order off the book.
\* The engine does not move in this specification.
engine == <<OPEN_SIDE_IS_ASK, ex, ts, pc, replenish_grid_lock, lock_waiter, counter,
            clock, loc, lim, hist, helper>>

\* place_single_order lines 380-387: the ticks tried after self.price_tick
TickCandidates == <<50000, 10000, 100000, 5000, 1000>>

\* the configured ticks, the ticks the exchange may enforce and the prices
\* asked for in the explored runs
ConfiguredTicks == {PRICE_TICK, 1000, 25000}
ExchangeTicks == {1000, PRICE_TICK, 100000, 300000}
GatewayPrices == {P0 + 3000, P0 + 25000}

\* the orders resting at the exchange when the adapter is exercised: orders
\* 1 and 2 carry a cl_ord_id, order 3 was placed without one and is known by
\* its numeric exchange id
GatewayOrders == {1, 2, 3}
ClientId(n) == [n |-> n, numeric |-> FALSE]
ExchangeId(n) == [n |-> n, numeric |-> TRUE]
CancelRequests ==
    {<<>>, <<ClientId(1)>>, <<ClientId(1), ClientId(2)>>, <<ExchangeId(3)>>,
     <<ClientId(1), ExchangeId(3)>>}

\* a ladder that keeps every candidate
KeepAll(candidates) == candidates

\* _dedupe_ticks
RECURSIVE DedupeFrom(_, _)
DedupeFrom(candidates, out) ==
    IF candidates = <<>> THEN out
    ELSE LET tick == Head(candidates) IN
         DedupeFrom(Tail(candidates),
                    IF tick <= 0 \/ tick \in Range(out) THEN out ELSE Append(out, tick))
_dedupe_ticks(candidates) == DedupeFrom(candidates, <<>>)

\* cancel_grid_orders line 524: verification polls of one call
VERIFY_POLLS == 3

\* cancel_grid_orders lines 456-477: the batch fields a call goes through,
\* the ones its loop skips left out
CancelFields(ids) ==
    IF \A i \in 1..Len(ids) : ids[i].numeric THEN <<"order_id_list">>
    ELSE IF \E i \in 1..Len(ids) : ids[i].numeric THEN <<"cl_ord_id_list", "order_id_list">>
    ELSE <<"cl_ord_id_list">>

\* lines 454-455, 470-477: the ids a batch request names, int_ids or cl_ids
BatchPayload(field, ids) ==
    {ids[i] : i \in {j \in 1..Len(ids) : ids[j].numeric = (field = "order_id_list")}}

\* lines 499-504: the keys the fallback tries for one id
SingleKeys(oid) == IF oid.numeric THEN <<"order_id", "cl_ord_id">> ELSE <<"cl_ord_id">>

\* the orders a cancel request names: an exchange id names its order, a
\* client id names the order placed with it, a number sent as a client id
\* names nothing
Named(tokens, byClient) == {t.n : t \in {u \in tokens : u.numeric = ~byClient}}

\* lines 526-529: the ids of the orders a successful poll lists
OpenIds(g) ==
    {ExchangeId(n) : n \in g.open} \cup {ClientId(n) : n \in g.open \cap {1, 2}}

\* the requested ids that rest at the exchange
RestingIds(g) == {g.ids[i] : i \in {j \in 1..Len(g.ids) : g.ids[j].n \in g.open}}

\* the exchange has accepted a cancel of these orders: they are off the book
\* at once, or a moment later
Accepted(g, named) ==
    {[g EXCEPT !.open = @ \ named], [g EXCEPT !.pending = @ \cup (named \cap g.open)]}

\* lines 523-524: the verification starts
Verifying(g) == [g EXCEPT !.pc = "query_open_orders", !.polls = 0]

\* _request: a request may fail (HTTP status >= 400, time-out, exception)
RequestCanFail(g) == g.nfail < MaxRequestFailures

\* a call has returned
Returned(g, value) == [g EXCEPT !.pc = "idle", !.ret = value]

InitGateway ==
    /\ InitProgram
    /\ OPEN_SIDE_IS_ASK = FALSE
    /\ ex = Exchange0
    /\ lim = QuietRun
    /\ helper = NoCall
    /\ \E tick \in ConfiguredTicks, xt \in ExchangeTicks :
          gw = [Gateway0 EXCEPT !.configured_tick = tick, !.price_tick = tick,
                                !.xt = xt, !.open = GatewayOrders]

\* place_single_order lines 377-402: the call starts and sends its first
\* request
PlaceSingleCall ==
    /\ gw.pc = "idle" /\ gw.ncalls < MaxCalls
    /\ \E price \in GatewayPrices :
          gw' = [gw EXCEPT !.pc = "new_order", !.ncalls = @ + 1, !.price = price,
                           !.ladder = _dedupe_ticks(<<gw.price_tick>> \o TickCandidates),
                           !.i = 1, !.resp = "", !.ret = "none"]
    /\ UNCHANGED engine

\* place_single_order lines 409-423: /new_order has answered the request made
\* with tick candidate i
NewOrderResp ==
    /\ gw.pc = "new_order"
    /\ LET tick == gw.ladder[gw.i]
           formatted == QuantizeToStep(gw.price, tick)
       IN  \/ /\ formatted % gw.xt = 0
              /\ gw' = Returned([gw EXCEPT !.resp = "ok", !.rests = formatted,
                                           !.price_tick = tick], "true")
           \/ /\ formatted % gw.xt # 0
              /\ gw' = IF gw.i < Len(gw.ladder)
                       THEN [gw EXCEPT !.resp = "tick", !.i = @ + 1]
                       ELSE Returned([gw EXCEPT !.resp = "tick"], "false")
           \/ /\ RequestCanFail(gw)
              /\ gw' = Returned([gw EXCEPT !.resp = "fail", !.nfail = @ + 1], "false")
    /\ UNCHANGED engine

\* cancel_grid_orders lines 450-483: the call starts; with ids to cancel it
\* sends its first batch request
CancelGridCall ==
    /\ gw.pc = "idle" /\ gw.ncalls < MaxCalls
    /\ \E ids \in CancelRequests :
          gw' = IF ids = <<>> THEN Returned([gw EXCEPT !.ncalls = @ + 1, !.ids = ids], "true")
                ELSE [gw EXCEPT !.pc = "cancel_orders", !.ncalls = @ + 1, !.ids = ids,
                                !.fields = CancelFields(ids), !.idx = 1, !.key = "",
                                !.all_single_ok = TRUE, !.polls = 0, !.ret = "none"]
    /\ UNCHANGED engine

\* lines 478-489: /cancel_orders has answered the batch request for
\* fields[idx]; after the last refusal the fallback starts with the first id
CancelOrdersResp ==
    /\ gw.pc = "cancel_orders"
    /\ LET field == gw.fields[gw.idx]
           named == Named(BatchPayload(field, gw.ids), field = "cl_ord_id_list")
           g == [gw EXCEPT !.nfail = @ + 1]
       IN  \/ \E g1 \in Accepted(gw, named) : gw' = Verifying(g1)
           \/ /\ RequestCanFail(gw)
              /\ gw' = IF gw.idx < Len(gw.fields) THEN [g EXCEPT !.idx = @ + 1]
                       ELSE [g EXCEPT !.pc = "cancel_order", !.idx = 1,
                                      !.key = SingleKeys(gw.ids[1])[1]]
    /\ UNCHANGED engine

\* lines 493-521: the fallback has finished with ids[idx], cancelled or not
NextSingle(g, per_ok) ==
    LET ok == g.all_single_ok /\ per_ok IN
    IF g.idx < Len(g.ids)
    THEN [g EXCEPT !.idx = @ + 1, !.key = SingleKeys(g.ids[g.idx + 1])[1],
                   !.all_single_ok = ok]
    ELSE IF ok THEN Verifying([g EXCEPT !.all_single_ok = ok])
    ELSE Returned([g EXCEPT !.all_single_ok = ok], "false")

\* lines 505-515: /cancel_order has answered the request for ids[idx] by key
CancelOrderResp ==
    /\ gw.pc = "cancel_order"
    /\ LET oid == gw.ids[gw.idx]
           keys == SingleKeys(oid)
           named == Named({oid}, gw.key = "cl_ord_id")
           g == [gw EXCEPT !.nfail = @ + 1]
       IN  \/ \E g1 \in Accepted(gw, named) : gw' = NextSingle(g1, TRUE)
           \/ /\ RequestCanFail(gw)
              /\ gw' = IF gw.key # keys[Len(keys)] THEN [g EXCEPT !.key = keys[Len(keys)]]
                       ELSE NextSingle(g, FALSE)
    /\ UNCHANGED engine

\* lines 524-536 with get_orders: /query_open_orders has answered a
\* verification poll; an answer that is no list reads as no open order
QueryOpenOrdersResp ==
    /\ gw.pc = "query_open_orders"
    /\ LET remaining == Range(gw.ids) \cap OpenIds(gw)
           g == [gw EXCEPT !.polls = @ + 1]
       IN  \/ gw' = IF remaining = {} THEN Returned(g, "true")
                    ELSE IF g.polls < VERIFY_POLLS THEN g
                    ELSE Returned(g, "false")
           \/ /\ RequestCanFail(gw)
              /\ gw' = Returned([g EXCEPT !.nfail = @ + 1], "true")
    /\ UNCHANGED engine

\* the messages of the stream: a price row with a price or with none of
\* mark_price, last_price and mid_price, an order message without rows, a
\* position message
NoPrice == 0
StreamMessages ==
    {[channel |-> "price", mark_price |-> p] : p \in {P0 - LevelGap, NoPrice}}
        \cup {[channel |-> "order", mark_price |-> NoPrice],
              [channel |-> "position", mark_price |-> NoPrice]}

\* on_market_stats_update line 73, float(market_stats.get("mark_price")),
\* raises on a row without a price; check_order_fills has nothing to do
\* without rows, on_account_all_positions_update returns while
\* original_open_prices is empty
CallbackRaises(msg) == msg.channel = "price" /\ msg.mark_price = NoPrice

\* _market_ws_loop lines 644-660 with _handle_ws_message and _emit: one text
\* message is received and its callback awaited; what the callback raises
\* reaches the except clause of the loop, which leaves the connection
WsMessage ==
    /\ gw.ws_ready /\ gw.nmsg < MaxMessages
    /\ \E msg \in StreamMessages :
          IF CallbackRaises(msg)
          THEN /\ gw' = [gw EXCEPT !.nmsg = @ + 1, !.cb = "raised", !.ws_ready = FALSE]
               /\ UNCHANGED engine
          ELSE /\ gw' = [gw EXCEPT !.nmsg = @ + 1, !.cb = "returned"]
               /\ ts' = IF msg.channel = "price"
                        THEN on_market_stats_update(ts, msg.mark_price) ELSE ts
               /\ UNCHANGED <<OPEN_SIDE_IS_ASK, ex, pc, replenish_grid_lock, lock_waiter,
                              counter, clock, loc, lim, hist, helper>>

\* _market_ws_loop lines 628-643, 660: after the 2 s sleep the loop connects
\* and subscribes again
WsReconnect ==
    /\ ~gw.ws_ready
    /\ gw' = [gw EXCEPT !.ws_ready = TRUE, !.connects = @ + 1]
    /\ UNCHANGED engine

\* the exchange carries out a cancel it accepted earlier
CancelLands ==
    /\ \E n \in gw.pending :
          gw' = [gw EXCEPT !.open = @ \ {n}, !.pending = @ \ {n}]
    /\ UNCHANGED engine

NextGateway ==
    \/ PlaceSingleCall
    \/ NewOrderResp
    \/ CancelGridCall
    \/ CancelOrdersResp
    \/ CancelOrderResp
    \/ QueryOpenOrdersResp
    \/ CancelLands
    \/ WsMessage
    \/ WsReconnect

SpecGateway == InitGateway /\ [][NextGateway]_vars

\* ============================================ helper functions on their own
\* The pure helpers of the engine, each called once on arguments drawn from a
\* bounded set; helper holds the arguments and, once done, what was returned.
\* The engine and the gateway do not move in this specification.
program == <<OPEN_SIDE_IS_ASK, ex, ts, pc, replenish_grid_lock, lock_waiter, counter,
             clock, loc, lim, hist, gw>>

BasePrices == {300000000, 12345000, P0, 200000}      \* 3000.00, 123.45, 100.00, 2.00
MaxGridCount == 4
GridCounts == 2..MaxGridCount
GridSpreads == {5, GRID_SPREAD_BP}                   \* 0.05 %, 1.5 %
LadderInputs ==
    [fn : {"calculate_grid_prices"}, done : {FALSE}, base_price : BasePrices,
     grid_count : GridCounts, grid_spread : GridSpreads]

\* the totals are even numbers of thousandths, so that every half the splitter
\* takes is a whole number of thousandths
MaxTotal == 140
Totals == {t \in 2..MaxTotal : t % 2 = 0}
SmallGridAmount == 4
GridAmounts == {GRID_AMOUNT, SmallGridAmount}
SplitInputs ==
    [fn : {"_split_position_into_orders"}, done : {FALSE}, total_position : Totals,
     grid_amount : GridAmounts]

\* what the open-orders query lists: two or three grid orders of one side at
\* prices that are equal, differ only beyond the fourth decimal, or differ by
\* a level
SnapshotPrices == {P0, P0 + 1, P0 + LevelGap}
SnapshotIds == 1..3
Listed(id, price) == [id |-> id, is_ask |-> FALSE, price |-> price, amount |-> GRID_AMOUNT]
Snapshots ==
    {<<Listed(a, p), Listed(b, q)>> :
        <<a, b, p, q>> \in {x \in SnapshotIds \X SnapshotIds \X SnapshotPrices \X SnapshotPrices :
                              x[1] # x[2]}}
    \cup
    {<<Listed(a, p), Listed(b, q), Listed(c, r)>> :
        <<a, b, c, p, q, r>> \in
            {x \in SnapshotIds \X SnapshotIds \X SnapshotIds
                   \X SnapshotPrices \X SnapshotPrices \X SnapshotPrices :
                x[1] # x[2] /\ x[1] # x[3] /\ x[2] # x[3]}}
SnapshotInputs == [fn : {"_check_duplicate_orders"}, done : {FALSE}, orders : Snapshots]

\* a cache that is empty, nearly full or full, and the keys one insertion adds:
\* one the cache may hold already or one it cannot hold yet
CacheSizes == {0, 1, CACHE_MAX - 1, CACHE_MAX}
CacheInputs ==
    [fn : {"_trim_id_cache"}, done : {FALSE}, cache : {1..n : n \in CacheSizes},
     key : {1, CACHE_MAX + 1}]

\* the books an open-side fill leaves behind, by level: level k of the open
\* side rests k market levels from the start price on the open side, level k
\* of the close side k levels on the other side
OpenLevels == 1..3
CloseLevels == 1..2
LevelPrice(k) == P0 - Mult * k * LevelGap
\* current_price: on a level from one above the start price to four below,
\* or half a unit off it
CurrentLevels == {-1, 0, 1, 2, 4}
CurrentOffsets == {0, 50000}
\* the price of the fill: none reported, the first or the last open level
TradeLevels == {0, 1, 3}
\* the active step: the base step, twice the base step, or 0.7 * ATR = 9.8035
ActiveSteps == {LevelGap, 2 * LevelGap, 980350}
OpenFilledInputs ==
    [fn : {"_on_open_side_filled"}, done : {FALSE}, open : SUBSET OpenLevels,
     close : SUBSET CloseLevels, current : CurrentLevels, offset : CurrentOffsets,
     trade : TradeLevels, active : ActiveSteps, pause : BOOLEAN]

\* the price and the configuration initialize_grid_trading starts from, ahead of
\* the first fill of the ladder
FirstFillInputs ==
    [fn : {"replenish_grid"}, done : {FALSE}, base_price : BasePrices,
     grid_count : GridCounts, grid_spread : GridSpreads]

HelperInputs ==
    LadderInputs \cup SplitInputs \cup SnapshotInputs \cup CacheInputs
       \cup OpenFilledInputs \cup FirstFillInputs

InitHelpers ==
    /\ InitProgram
    /\ ex = Exchange0
    /\ lim = QuietRun
    /\ gw = Gateway0
    /\ helper \in HelperInputs

\* initialize_grid_trading lines 229-244: the ladder and the base step
CallLadder ==
    /\ helper.fn = "calculate_grid_prices" /\ ~helper.done
    /\ LET open_prices == calculate_grid_prices(helper.base_price, helper.grid_count,
                                                helper.grid_spread)
       IN  helper' = [fn |-> helper.fn, done |-> TRUE, base_price |-> helper.base_price,
                      grid_count |-> helper.grid_count, grid_spread |-> helper.grid_spread,
                      open_prices |-> open_prices,
                      base_grid_single_price |->
                          InitialStep(open_prices, helper.base_price, helper.grid_spread)]
    /\ UNCHANGED program

\* the state _save_pause_position finds when total is available to park after
\* a trade at the start price
Parkable(total) ==
    [ts EXCEPT !.available_position_size = total, !.last_trade_price = P0,
               !.base_grid_single_price = LevelGap, !.active_grid_signle_price = LevelGap]

\* _save_pause_position line 264: the splitter is called; batch is what lines
\* 236-334 hand to place_multi_orders for that total under the configured
\* GRID_AMOUNT
CallSplit ==
    /\ helper.fn = "_split_position_into_orders" /\ ~helper.done
    /\ helper' = [fn |-> helper.fn, done |-> TRUE, total_position |-> helper.total_position,
                  grid_amount |-> helper.grid_amount,
                  order_amounts |-> _split_position_into_orders(helper.total_position,
                                                                helper.grid_amount),
                  batch |-> IF helper.grid_amount = GRID_AMOUNT
                            THEN ParkingOrders(Parkable(helper.total_position))
                            ELSE <<>>]
    /\ UNCHANGED program

\* check_current_orders lines 415-416 after _sync_current_orders has rebuilt
\* the books from the list: the cancel list of the duplicate check on the buy
\* side
CallDuplicates ==
    /\ helper.fn = "_check_duplicate_orders" /\ ~helper.done
    /\ LET s == _sync_current_orders(ts, helper.orders)
       IN  helper' = [fn |-> helper.fn, done |-> TRUE, orders |-> helper.orders,
                      buy_orders |-> s.buy_orders,
                      cancel_orders |-> _check_duplicate_orders(s.buy_orders)]
    /\ UNCHANGED program

\* check_order_fills lines 187-189, reconcile_fills_from_recent_trades lines
\* 249-250: a key is added and the cache trimmed
CallTrim ==
    /\ helper.fn = "_trim_id_cache" /\ ~helper.done
    /\ \E trimmed \in TrimResults(helper.cache \cup {helper.key}, CACHE_MAX) :
          helper' = [fn |-> helper.fn, done |-> TRUE, cache |-> helper.cache,
                     key |-> helper.key, trimmed |-> trimmed]
    /\ UNCHANGED program

\* a side map with one order on each of the levels, nearest level first; the
\* close side lies on the negative levels
RECURSIVE LevelBook(_, _)
LevelBook(levels, sign) ==
    IF levels = {} THEN <<>>
    ELSE LET k == SetMin(levels)
         IN  <<[id |-> IF sign > 0 THEN k ELSE 10 + k, price |-> LevelPrice(sign * k)]>>
                \o LevelBook(levels \ {k}, sign)

\* the state replenish_grid finds after check_order_fills has removed the
\* filled open-side order from its map
AfterOpenFill(h) ==
    LET s == [ts EXCEPT !.current_price = LevelPrice(h.current) + h.offset,
                        !.base_grid_single_price = LevelGap,
                        !.active_grid_signle_price = h.active,
                        !.grid_pause = h.pause,
                        !.last_filled_order_is_close_side = FALSE,
                        !.available_position_size = GRID_AMOUNT]
    IN  SetBook(SetBook(s, OPEN_SIDE_IS_ASK, LevelBook(h.open, 1)),
                CLOSE_SIDE_IS_ASK, LevelBook(h.close, -1))

\* replenish_grid line 82: _on_open_side_filled(trade_price) computes the new
\* open rung, the paired close rung and the batch for place_multi_orders
CallOpenFilled ==
    /\ helper.fn = "_on_open_side_filled" /\ ~helper.done
    /\ LET s == AfterOpenFill(helper)
           trade_price == IF helper.trade = 0 THEN 0 ELSE LevelPrice(helper.trade)
       IN  helper' = [fn |-> helper.fn, done |-> TRUE, state |-> s,
                      trade_price |-> trade_price,
                      new_open_order |-> _calc_next_open_side_open_order(s),
                      new_close_order |-> _calc_next_open_side_close_order(s, trade_price),
                      orders |-> OpenSideFilledOrders(s, trade_price)]
    /\ UNCHANGED program

\* the state the first replenishment finds: initialize_grid_trading (lines
\* 229-244) has succeeded at base_price, the rung of the ladder nearest to the
\* price has filled and left its map, and the price stands at that rung
AfterFirstFill(h) ==
    LET open_prices == calculate_grid_prices(h.base_price, h.grid_count, h.grid_spread)
        base_step == InitialStep(open_prices, h.base_price, h.grid_spread)
        n == Len(open_prices)
        filled == IF OPEN_SIDE_IS_ASK THEN 1 ELSE n
        resting == [i \in 1..n |-> [id |-> i, price |-> open_prices[i]]]
        s == [ts EXCEPT !.current_price = open_prices[filled],
                        !.base_grid_single_price = base_step,
                        !.active_grid_signle_price = base_step,
                        !.original_open_prices = open_prices,
                        !.is_running = TRUE,
                        !.last_filled_order_is_close_side = FALSE,
                        !.current_position_size = GRID_AMOUNT,
                        !.available_position_size = GRID_AMOUNT]
    IN  SetBook(s, OPEN_SIDE_IS_ASK, SelectSeq(resting, LAMBDA o : o.id # filled))

\* replenish_grid after the first fill: the price-adjustment loops of
\* _calc_next_open_side_open_order (lines 186-191) and of
\* _replenish_config_close_orders (lines 628-638)
CallFirstFill ==
    /\ helper.fn = "replenish_grid" /\ ~helper.done
    /\ LET s == AfterFirstFill(helper)
       IN  helper' = [fn |-> helper.fn, done |-> TRUE, base_price |-> helper.base_price,
                      grid_spread |-> helper.grid_spread, state |-> s,
                      new_open_order |-> _calc_next_open_side_open_order(s),
                      config_close_order |-> ConfigCloseOrder(s)]
    /\ UNCHANGED program

NextHelpers ==
    \/ CallFirstFill
    \/ CallOpenFilled
    \/ CallLadder
    \/ CallSplit
    \/ CallDuplicates
    \/ CallTrim

SpecHelpers == InitHelpers /\ [][NextHelpers]_vars

\* ================================================================ properties
\* the sections that change the grid state across gateway calls
InReplenish(t) ==
    /\ pc[t] \in {"place", "rollback", "init_acct", "init_trades", "init_wait", "init_sync",
                  "init_place"}
    /\ loc[t].ret # "startup"
    /\ ~Parking(World, t)
InReconcile == pc.ctl \in {"sync", "cancel"}
InParking == Parking(World, "ctl")

\* C1: every section that changes the grid state (fill handling and its
\* replenishment, the periodic reconcile + replenish, placeholder parking) runs
\* only while its task holds replenish_grid_lock, so that no two of them are
\* in progress at the same time.
C1_SectionsHoldLock ==
    /\ \A t \in Tasks : InReplenish(t) => replenish_grid_lock = t
    /\ InReconcile => replenish_grid_lock = "ctl"
    /\ InParking => replenish_grid_lock = "ctl"
    /\ ~(InParking /\ InReplenish("ws"))

\* the order event the websocket task hands to the fill section in this step
CurrentEvent == IF pc.ws = "idle" THEN Head(ex.wsq) ELSE loc.ws.ev

\* the step runs the fill section for a close-side fill event of a grid order
CloseFillStep ==
    /\ ts'.filled_count = ts.filled_count + 1
    /\ ts'.last_filled_order_is_close_side
    /\ CurrentEvent.id \notin hist.parked

ProfitsUp ==
    LET once_profit == ts.base_grid_single_price * GRID_AMOUNT IN
    /\ ts'.active_profit = ts.active_profit + once_profit
    /\ ts'.total_profit = ts.total_profit + once_profit
    /\ ts'.available_reduce_profit = ts.available_reduce_profit + once_profit

ProfitsSame ==
    /\ ts'.active_profit = ts.active_profit
    /\ ts'.total_profit = ts.total_profit
    /\ ts'.available_reduce_profit = ts.available_reduce_profit

C3_OneBookPerId ==
    \A id \in 1..MaxId + 1 :
       Cardinality({b \in {"buy", "sell", "pause"} :
                      Has(IF b = "buy" THEN ts.buy_orders
                          ELSE IF b = "sell" THEN ts.sell_orders
                          ELSE ts.pause_orders, id)}) <= 1

\* placeholder orders and grid orders on both sides are on the books
C3_Witness ==
    /\ ts.pause_orders # <<>>
    /\ ts.buy_orders # <<>>
    /\ ts.sell_orders # <<>>

\* no two entries of a side book have the same price rounded to 4 decimals
NoDuplicatePrice(book) ==
    \A i, j \in 1..Len(book) : i # j => Round4(book[i].price) # Round4(book[j].price)

C6_CloseWithinInventoryEver ==
    clock.grace_over =>
        close_orders_count(ts) * GRID_AMOUNT <= ts.available_position_size

\* C7 as stated: available_position >= 0 in every reachable state.
C7_AvailableNonNegative == ts.available_position_size >= 0

\* C8 as stated: in every state every price in sell_orders is above
\* current_price and every price in buy_orders is below it.
C8_BooksStraddlePrice ==
    ts.current_price # 0 =>
        /\ \A i \in 1..Len(ts.sell_orders) : ts.sell_orders[i].price > ts.current_price
        /\ \A i \in 1..Len(ts.buy_orders) : ts.buy_orders[i].price < ts.current_price

\* the step in which check_current_orders returns (the control task leaves
\* its last order query or cancel call)
ReconcileEnds ==
    /\ pc.ctl \in {"sync", "cancel"}
    /\ pc'.ctl \notin {"sync", "cancel"}

\* the step in which the cancel call of pruning pass k returns True
CancelDone(k) ==
    /\ pc.ctl = "cancel" /\ loc.ctl.cpass = k
    /\ pc'.ctl # pc.ctl \/ loc'.ctl # loc.ctl
    /\ ex'.nfail = ex.nfail

InventoryPassDecides ==
    /\ pc'.ctl = "cancel" /\ loc'.ctl.cpass = 3
    /\ pc.ctl # "cancel" \/ loc.ctl.cpass # 3

\* C6: the inventory pass of a reconcile cancels only once 60 s have passed
\* since the start; the close-side orders its cancel list leaves are none or
\* satisfy count(close_orders) * GRID_AMOUNT <= available_position as read by
\* the pass, and a successful cancel removes exactly the listed orders.
C6_InventoryPassCoversClose ==
    [][/\ InventoryPassDecides =>
            LET left == close_orders_count(ts') - Len(loc'.ctl.cancel_orders) IN
            /\ clock'.grace_over
            /\ left = 0 \/ left * GRID_AMOUNT <= ts'.available_position_size
       /\ CancelDone(3) =>
            close_orders_count(ts') =
                close_orders_count(ts) - Len(loc.ctl.cancel_orders)]_vars

\* the inventory pass has cancelled and left close-side orders that the
\* inventory covers
C6_Witness ==
    /\ pc.ctl = "place" /\ loc.ctl.cpass = 3 /\ clock.grace_over
    /\ \A id \in Range(loc.ctl.cancel_orders) : ~Has(close_orders(ts), id)
    /\ close_orders_count(ts) > 0
    /\ close_orders_count(ts) * GRID_AMOUNT <= ts.available_position_size

\* an order lies on its own side of the price: a sell above, a buy below
RightSide(o, price) == IF o.is_ask THEN o.price > price ELSE o.price < price

\* the step in which task t hands a new batch to the gateway
Issues(t) ==
    /\ pc'[t] = "place"
    /\ pc[t] # "place" \/ loc'[t].orders # loc[t].orders \/ loc'[t].stage # loc[t].stage

\* C8: every order that replenishment computes after an open-side fill, in
\* the over-range rules and in the inventory-backed close rule lies, when it
\* is computed, on its own side of current_price: a sell above, a buy below.
C8_ComputedOrdersStraddlePrice ==
    [][\A t \in Tasks :
          (Issues(t) /\ loc'[t].stage \in {"open_filled", "ovr_open", "ovr_close", "cfg"})
          => \A i \in 1..Len(loc'[t].orders) :
                RightSide(loc'[t].orders[i], ts'.current_price)]_vars

\* the pair computed after an open-side fill is on its way to the gateway
C8_Witness ==
    \E t \in Tasks :
       /\ pc[t] = "place" /\ loc[t].stage = "open_filled"
       /\ Len(loc[t].orders) = 2
       /\ \A i \in 1..2 : RightSide(loc[t].orders[i], ts.current_price)

\* C9 as stated: no pruning pass of a reconcile asks the gateway to cancel an
\* order that placeholder parking has placed.
C9_ParkedNeverCancelled ==
    pc.ctl = "cancel" => Range(loc.ctl.cancel_orders) \cap hist.parked = {}

\* C10: in one pause session at most one parking batch is placed, however
\* many risk checks re-attempt parking, and placing_pause_order is false
\* whenever no call of _save_pause_position is in progress.
C10_OneBatchPerPause ==
    /\ hist.batches <= 1
    /\ ts.placing_pause_order => InParking

\* the second periodic risk check of a pause session is over and the session
\* still has its one batch
C10_Witness ==
    /\ counter = RISK_PERIOD /\ pc.ctl = "sync"
    /\ ts.grid_pause /\ ts.pause_position_exist
    /\ hist.batches = 1

\* the step in which _save_pause_position hands its batch to the gateway
ParkingEmits ==
    /\ pc'.ctl = "park"
    /\ pc.ctl # "park" \/ loc'.ctl.stage # loc.ctl.stage

\* C11 as stated: every order that placeholder parking emits is, when it is
\* emitted, strictly on the profitable side of current_price: a sell above
\* it, a buy below it.
C11_ParkingPastCurrentPrice ==
    [][ParkingEmits =>
         \A i \in 1..Len(loc'.ctl.orders) :
            RightSide(loc'.ctl.orders[i], ts'.current_price)]_vars

\* the placeholder orders of an order list: close side, amount above GRID_AMOUNT
Placeholders(orders) ==
    LET sel == SelectSeq(orders, LAMBDA o : o.is_ask = CLOSE_SIDE_IS_ASK
                                            /\ o.amount > GRID_AMOUNT)
    IN  [i \in 1..Len(sel) |-> [id |-> sel[i].id, price |-> sel[i].price,
                                amount |-> sel[i].amount]]

\* C12: a reconcile that runs while grid_pause is set and whose gateway calls
\* succeed returns with buy_orders and sell_orders empty; pause_orders and
\* pause_positions are those of the order list the reconcile read, and no
\* cancel of the reconcile changes them.
C12_PausedReconcileClearsGrid ==
    [][/\ (ReconcileEnds /\ ts.grid_pause /\ ex'.nfail = 0) =>
             ts'.buy_orders = <<>> /\ ts'.sell_orders = <<>>
       /\ (pc.ctl = "sync" /\ pc'.ctl # "sync" /\ ex'.nfail = ex.nfail) =>
             /\ ts'.pause_orders = Placeholders(ex.orders)
             /\ {e.price : e \in Range(ts'.pause_positions)}
                   = {e.price : e \in Range(Placeholders(ex.orders))}
       /\ pc.ctl = "cancel" =>
             /\ ts'.pause_orders = ts.pause_orders
             /\ ts'.pause_positions = ts.pause_positions]_vars

\* a reconcile under pause has cancelled grid orders and has returned with
\* empty side books and the placeholders on record
C12_Witness ==
    /\ pc.ctl = "sleep" /\ ts.grid_pause /\ ex.nfail = 0
    /\ hist.rcancels > 0
    /\ ts.buy_orders = <<>> /\ ts.sell_orders = <<>>
    /\ ts.pause_orders # <<>>

\* C13 as stated, its last part: no order of a batch whose place_multi_orders
\* call reported failure is ever entered in buy_orders or sell_orders.
C13_FailedBatchOffBooks ==
    \A id \in hist.rolled : ~Has(ts.buy_orders, id) /\ ~Has(ts.sell_orders, id)

\* the step in which a place_single_order of task t's batch is refused
PlaceRefused(t) ==
    /\ pc[t] \in {"place", "park"}
    /\ ex'.nextId = ex.nextId
    /\ pc'[t] # pc[t] \/ loc'[t] # loc[t]

\* C13: when place_multi_orders fails at its k-th order it sends exactly the
\* k-1 ids it has placed to cancel_grid_orders (and sends no cancel when
\* k = 1); a cancel that succeeds leaves none of them resting; the failing
\* call and its cancel enter nothing in buy_orders or sell_orders.
C13_FailedBatchRollsBack ==
    [][\A t \in Tasks :
          /\ (PlaceRefused(t) /\ loc[t].placed # <<>>) =>
                pc'[t] = "rollback" /\ loc'[t].placed = loc[t].placed
          /\ (PlaceRefused(t) /\ loc[t].placed = <<>>) => pc'[t] # "rollback"
          /\ (PlaceRefused(t) \/ (pc[t] = "rollback" /\ pc'[t] # "rollback")) =>
                ts'.buy_orders = ts.buy_orders /\ ts'.sell_orders = ts.sell_orders
          /\ (pc[t] = "rollback" /\ pc'[t] # "rollback" /\ ex'.nfail = ex.nfail) =>
                \A i \in 1..Len(ex'.orders) : ex'.orders[i].id \notin Range(loc[t].placed)
      ]_vars

\* a batch has failed at its second order, its first order has been cancelled
\* and is in neither side book
C13_Witness ==
    /\ hist.rolled # {}
    /\ \A id \in hist.rolled :
          /\ ~Has(ts.buy_orders, id) /\ ~Has(ts.sell_orders, id)
          /\ \A i \in 1..Len(ex.orders) : ex.orders[i].id # id

\* ---- C14: cancel_grid_orders returns True only when none of the requested
\* ids is resting at the exchange at the time of its last verification poll.
CancelReturnsTrue == gw.pc = "query_open_orders" /\ gw'.pc = "idle" /\ gw'.ret = "true"
C14_TrueMeansNoneResting == [][CancelReturnsTrue => RestingIds(gw) = {}]_vars

\* ---- C15: place_single_order goes through the configured tick followed by
\* 0.5, 0.1, 1, 0.05 and 0.01 without repeats, moves to the next candidate
\* only after a tick-mismatch answer, returns (False, "") on any other
\* failure and after the last candidate, sends at most 6 requests, and on
\* success leaves the working tick at the tick that was accepted.
ExpectedLadder(tick) ==
    <<tick>> \o SelectSeq(<<50000, 10000, 100000, 5000, 1000>>, LAMBDA x : x # tick)
NewOrderAnswered == gw.pc = "new_order" /\ (gw'.pc # "new_order" \/ gw'.i # gw.i)
LadderRule(first) ==
    gw.pc = "new_order" =>
        /\ gw.i \in 1..Len(gw.ladder) /\ Len(gw.ladder) <= 6
        /\ gw.ladder = ExpectedLadder(first)
        /\ \/ /\ ~NewOrderAnswered
              /\ gw'.price_tick = gw.price_tick /\ gw'.ladder = gw.ladder
           \/ /\ gw'.resp = "ok" /\ gw'.pc = "idle" /\ gw'.ret = "true"
              /\ gw'.price_tick = gw.ladder[gw.i] /\ gw'.i = gw.i
              /\ gw'.rests = QuantizeToStep(gw.price, gw.ladder[gw.i])
           \/ /\ gw'.resp = "fail" /\ gw'.pc = "idle" /\ gw'.ret = "false"
              /\ gw'.price_tick = gw.price_tick /\ gw'.i = gw.i
           \/ /\ gw'.resp = "tick" /\ gw'.price_tick = gw.price_tick
              /\ gw'.ladder = gw.ladder
              /\ IF gw.i < Len(gw.ladder)
                 THEN gw'.pc = "new_order" /\ gw'.i = gw.i + 1
                 ELSE gw'.pc = "idle" /\ gw'.ret = "false" /\ gw'.i = gw.i
\* as stated: the ladder of every call starts at the configured tick
C15_LadderFromConfigured == [][LadderRule(gw.configured_tick)]_vars
\* as the code has it: the ladder of a call starts at the working tick the
\* call finds, which is the configured tick until a placement moves it
C15_TickLadder ==
    [][/\ LadderRule(gw.ladder[1])
       /\ gw.pc = "idle" /\ gw'.pc = "new_order" =>
             gw'.ladder = ExpectedLadder(gw.price_tick)]_vars
\* a placement accepted by a call that started after an earlier call had
\* moved the working tick away from the configured one
C15_Witness ==
    /\ gw.pc = "idle" /\ gw.resp = "ok" /\ gw.ret = "true"
    /\ gw.ladder[1] # gw.configured_tick /\ gw.price_tick = gw.ladder[gw.i]

\* ---- C16: an exception raised inside a price, orders or positions
\* callback never reaches the gateway's websocket task: the connection is
\* not left or made again because of it, and later messages are dispatched
\* on the same connection.
C16_CallbackErrorKeepsConnection ==
    [][gw'.nmsg # gw.nmsg /\ gw'.cb = "raised" =>
          gw'.ws_ready /\ gw'.connects = gw.connects]_vars

\* ---- C17: a run of check_current_orders that follows another with no
\* fill, no price change and no new order from the order query of the first
\* to the end of the second leaves buy_orders,
\* sell_orders, pause_orders and pause_positions as the first run left them
\* and issues no cancel.
QuietSince(a) == a.run /\ a.seen.env = Seen(ex', ts')
SameBooks(a, b) ==
    /\ a.buy_orders = b.buy_orders /\ a.sell_orders = b.sell_orders
    /\ a.pause_orders = b.pause_orders /\ a.pause_positions = b.pause_positions
GridIds == (1..(ex.nextId - 1)) \ hist.parked
AllCancelled == GridIds # {} /\ GridIds \subseteq hist.cancelled
C19_BaseStepFixed ==
    [][ts.base_grid_single_price # 0 =>
          ts'.base_grid_single_price = ts.base_grid_single_price]_vars

\* ---- C20: whenever the active step is recomputed, on a price tick or on a
\* control tick, the result is max(base, min(0.7 * ATR, 30 * base)) when ATR
\* is above ATR_THRESHOLD, and otherwise base, or 2 * base when
\* grid_open_spread_alert is set.
ExpectedStep(s, atr) ==
    IF atr > ATR_THRESHOLD
    THEN Max2(s.base_grid_single_price,
              Min2((7 * atr) \div 10, 30 * s.base_grid_single_price))
    ELSE IF s.grid_open_spread_alert THEN 2 * s.base_grid_single_price
    ELSE s.base_grid_single_price
ControlTickRecomputes ==
    pc.ctl = "candle" /\ pc'.ctl # "candle" /\ ts.current_price # 0
PriceTickRecomputes ==
    /\ pc' = pc /\ ts'.current_price # ts.current_price
    /\ ts.candle_stick_1m # NoCandle
    /\ is_rapid_market_move(ts.candle_stick_1m, ts'.current_price)
C20_ActiveStepFormula ==
    [][(ControlTickRecomputes \/ PriceTickRecomputes) =>
          ts'.active_grid_signle_price = ExpectedStep(ts', ts'.candle_stick_1m.atr)]_vars
\* the control tick alone
C20_ControlTickFormula ==
    [][ControlTickRecomputes =>
          ts'.active_grid_signle_price = ExpectedStep(ts', ts'.candle_stick_1m.atr)]_vars

\* ------------------------------------------------------------------- C21
\* rung i of the ladder of the claim, counted from the base price outwards:
\* base * (1 - i * s / 100) for LONG, base * (1 + i * s / 100) for SHORT,
\* rounded to 2 decimals
ClaimedRung(base_price, i, spread_bp) ==
    IF ~OPEN_SIDE_IS_ASK THEN MulBpRound2(base_price, 10000 - i * spread_bp)
    ELSE MulBpRound2(base_price, 10000 + i * spread_bp)

LadderDone == helper.fn = "calculate_grid_prices" /\ helper.done

\* C21: the initial open-side ladder has exactly n prices, rung i = 1..n being
\* base * (1 - i * s / 100) for LONG and base * (1 + i * s / 100) for SHORT
\* rounded to 2 decimals, and base_step is the absolute distance between two
\* adjacent ladder prices; with LONG, base 3000.00, n = 3 and s = 0.05 the
\* buys are 2998.50, 2997.00, 2995.50 and base_step is 1.50.
C21_InitialLadder ==
    LadderDone =>
       LET n == helper.grid_count
           ladder == helper.open_prices
       IN  /\ Len(ladder) = n
           /\ \A i \in 1..n :
                 ladder[IF OPEN_SIDE_IS_ASK THEN i ELSE n + 1 - i]
                    = ClaimedRung(helper.base_price, i, helper.grid_spread)
           /\ \E k \in 1..(n - 1) :
                 helper.base_grid_single_price = Abs(ladder[k + 1] - ladder[k])
           /\ (~OPEN_SIDE_IS_ASK /\ helper.base_price = 300000000 /\ n = 3
                  /\ helper.grid_spread = 5)
              => /\ ladder = <<299550000, 299700000, 299850000>>
                 /\ helper.base_grid_single_price = 150000

\* the ladder of the example has been computed
C21_Witness ==
    /\ LadderDone /\ ~OPEN_SIDE_IS_ASK
    /\ helper.base_price = 300000000 /\ helper.grid_count = 3 /\ helper.grid_spread = 5
    /\ helper.base_grid_single_price = 150000

\* ------------------------------------------------------------------- C22
SplitDone == helper.fn = "_split_position_into_orders" /\ helper.done

\* C22: for every total >= 2 * grid_amount, whether a whole multiple of
\* grid_amount or not, every size the parking splitter returns lies in
\* [2 * grid_amount, 3 * grid_amount]; a smaller size is returned only when
\* total itself is smaller than 2 * grid_amount.
C22_SplitSizesInRange ==
    (SplitDone /\ helper.total_position >= 2 * helper.grid_amount)
       => \A i \in 1..Len(helper.order_amounts) :
             /\ helper.order_amounts[i] >= 2 * helper.grid_amount
             /\ helper.order_amounts[i] <= 3 * helper.grid_amount

\* ------------------------------------------------------------------- C23
BatchAmount == SumSeq([i \in 1..Len(helper.batch) |-> helper.batch[i].amount])

DuplicatesDone == helper.fn = "_check_duplicate_orders" /\ helper.done

\* entries i < j of the rebuilt book are the only two at their rounded price
DuplicatePair(i, j) ==
    LET book == helper.buy_orders
    IN  /\ i < j
        /\ Round4(book[i].price) = Round4(book[j].price)
        /\ \A k \in 1..Len(book) :
              Round4(book[k].price) = Round4(book[i].price) => k \in {i, j}

Cancelled(id) == id \in Range(helper.cancel_orders)

\* C24 as stated: of two grid orders of one side whose prices are equal after
\* rounding to 4 decimals exactly one is cancelled, and the one with the lower
\* id is retained whatever the order in which the snapshot lists them.
C24_LowerIdRetained ==
    DuplicatesDone =>
       \A i, j \in 1..Len(helper.buy_orders) :
          DuplicatePair(i, j) =>
             LET a == helper.buy_orders[i]
                 b == helper.buy_orders[j]
             IN  /\ Cancelled(a.id) # Cancelled(b.id)
                 /\ Cancelled(IF a.id < b.id THEN b.id ELSE a.id)

\* C24: of two grid orders of one side whose prices are equal after rounding
\* to 4 decimals exactly one is put on the cancel list: the one with the
\* higher price, and for equal prices the one the snapshot lists later.
C24_FirstInPriceOrderRetained ==
    DuplicatesDone =>
       \A i, j \in 1..Len(helper.buy_orders) :
          DuplicatePair(i, j) =>
             LET a == helper.buy_orders[i]
                 b == helper.buy_orders[j]
             IN  /\ Cancelled(a.id) # Cancelled(b.id)
                 /\ Cancelled(IF a.price > b.price THEN a.id ELSE b.id)

\* the snapshot lists the higher id first at the same price, and the lower id
\* is the one on the cancel list
C24_Witness ==
    /\ DuplicatesDone
    /\ \E i, j \in 1..Len(helper.buy_orders) :
          /\ DuplicatePair(i, j)
          /\ helper.buy_orders[i].id > helper.buy_orders[j].id
          /\ helper.buy_orders[i].price = helper.buy_orders[j].price
          /\ Cancelled(helper.buy_orders[j].id)

\* ------------------------------------------------------------------- C25
TrimDone == helper.fn = "_trim_id_cache" /\ helper.done

\* C25: after every insertion by the fill handler or the trade
\* reconciliation, the key cache inserted into (processed_trade_keys,
\* recent_filled_order_ids) holds at most 5000 entries.
C25_CacheBounded == TrimDone => Cardinality(helper.trimmed) <= 5000

\* a key the cache did not hold has been inserted into a cache of 5000 keys
C25_Witness ==
    /\ TrimDone
    /\ Cardinality(helper.cache) = CACHE_MAX
    /\ helper.key \notin helper.cache
    /\ Cardinality(helper.trimmed) = CACHE_MAX

\* ------------------------------------------------------------------- C26
\* the step runs the fill section for the fill event of a grid order that a
\* reconcile has dropped from the local maps
DroppedFillStep ==
    /\ ts'.filled_count = ts.filled_count + 1
    /\ CurrentEvent.id \in hist.dropped
    /\ CurrentEvent.id \notin hist.parked

\* the fill section has reduced the inventory by one grid amount
InventoryDown ==
    ts'.available_position_size = Round2A(ts.available_position_size - GRID_AMOUNT)

\* C26: a fill of a locally tracked grid order is never lost: also when its
\* event is delivered after a reconcile has dropped the order from the local
\* maps, a close-side fill lowers the inventory and books the profit.
C26_DroppedFillAttributed ==
    [][(DroppedFillStep /\ ts'.last_filled_order_is_close_side)
          => (ProfitsUp /\ InventoryDown)]_vars

\* ------------------------------------------------------------------- C27
\* the step runs the first lock block of check_order_fills (lines 176-214)
\* for CurrentEvent
FillSectionRuns ==
    \/ /\ pc.ws = "idle" /\ pc.ctl # "stopped" /\ ex.wsq # <<>>
       /\ replenish_grid_lock = "free"
       /\ ~IsSkipped(ts, Head(ex.wsq))
       /\ ex'.wsq = Tail(ex.wsq)
    \/ /\ pc.ws = "lock_wait" /\ replenish_grid_lock = "ws"
       /\ pc'.ws # "lock_wait"

\* the fill event handled in this step has been handled before
SecondDelivery ==
    /\ FillSectionRuns
    /\ CurrentEvent.status = "closed" /\ CurrentEvent.filled > 0
    /\ CurrentEvent.id \in ts.recent_filled_order_ids

\* C27: when the same streamed fill event (same order id) is delivered more
\* than once, the second and later deliveries change nothing: filled_count,
\* available_position_size and the profit counters stay, no resting order is
\* removed from the side maps, and no replenishment pass is triggered.
C27_SecondDeliveryChangesNothing ==
    [][SecondDelivery =>
         /\ ts'.filled_count = ts.filled_count
         /\ ts'.available_position_size = ts.available_position_size
         /\ ProfitsSame
         /\ ts'.buy_orders = ts.buy_orders
         /\ ts'.sell_orders = ts.sell_orders
         /\ pc'.ws = "idle"]_vars

\* ------------------------------------------------------------------- C28
\* the step in which task t hands grid orders to the gateway: a batch of
\* replenish_grid or the initial ladder of initialize_grid_trading
Submits(t) ==
    \/ Issues(t)
    \/ pc'[t] = "init_place" /\ pc[t] # "init_place"

\* C28: no grid order is submitted while grid_pause is true, also when a
\* position update (position > MAX_POSITION) sets grid_pause after a
\* replenishment pass has started and before it submits its orders.
C28_NoSubmitWhilePaused ==
    [][\A t \in Tasks : Submits(t) => ~ts'.grid_pause]_vars

\* ------------------------------------------------------------------- C29
\* the open-orders query of check_current_orders is answered with a failure
FailedSync ==
    /\ pc.ctl = "sync" /\ pc'.ctl # "sync"
    /\ ex'.nfail = ex.nfail + 1

BooksKept ==
    /\ ts'.buy_orders = ts.buy_orders
    /\ ts'.sell_orders = ts.sell_orders
    /\ ts'.pause_orders = ts.pause_orders
    /\ ts'.pause_positions = ts.pause_positions

\* a fresh initial ladder is handed to the gateway while grid orders rest on
\* the exchange
LadderOnTop(t) ==
    /\ pc'[t] = "init_place" /\ pc[t] # "init_place"
    /\ \E i \in 1..Len(ex'.orders) : ex'.orders[i].amount <= GRID_AMOUNT

\* C29: when the open-orders REST query fails, the reconcile leaves
\* buy_orders, sell_orders, the placeholder orders and the placeholder
\* positions as they are, and no replenishment pass places a fresh initial
\* ladder on top of resting orders.
C29_FailedQueryKeepsBooks ==
    [][/\ FailedSync => BooksKept
       /\ \A t \in Tasks : ~LadderOnTop(t)]_vars

\* ------------------------------------------------------------------- C30
\* C30: every batch a replenishment pass hands to the gateway, the orders
\* computed after a close-side fill included, holds only orders that lie
\* strictly on their own side of current_price at that moment: buys below
\* it and sells above it.
C30_SubmittedOrdersDoNotCross ==
    [][\A t \in Tasks :
          Issues(t) => \A i \in 1..Len(loc'[t].orders) :
                          RightSide(loc'[t].orders[i], ts'.current_price)]_vars

\* ------------------------------------------------------------------- C31
OpenFilledDone == helper.fn = "_on_open_side_filled" /\ helper.done

\* p lies strictly on the open side of the price cur
OffOpenSide(p, cur) == IF ~OPEN_SIDE_IS_ASK THEN p < cur ELSE p > cur

\* the most active steps an adjustment loop takes here
MaxShift == 8
\* round(x, 2) moves a price by at most half a cent
HalfCent == 500

\* p is k active steps beyond the price from, each step rounded to cents
StepsBeyond(p, from, k, step) == Abs(p - (from - Mult * k * step)) <= k * HalfCent

\* the price the next open rung is measured from: the furthest resting open
\* rung, or one active step beyond current_price when none rests
MeasuredFrom(s) ==
    IF open_orders_count(s) > 0
    THEN CHOOSE v \in Values(open_orders(s)) :
            \A u \in Values(open_orders(s)) : (v - u) * Mult <= 0
    ELSE s.current_price - Mult * s.active_grid_signle_price

\* p is the first price, counting whole active steps beyond from, that lies
\* strictly on the open side of current_price
NextOpenRung(s, p, from) ==
    LET step == s.active_grid_signle_price IN
    \E k \in 1..MaxShift :
       /\ StepsBeyond(p, from, k, step)
       /\ OffOpenSide(p, s.current_price)
       /\ k > 1 => \E q \in {p + Mult * step - HalfCent, p + Mult * step,
                              p + Mult * step + HalfCent} :
                      ~OffOpenSide(Round2(q), s.current_price)

\* the batch holds an open-side order
HasOpenRung(orders) == \E i \in 1..Len(orders) : orders[i].is_ask = OPEN_SIDE_IS_ASK

\* C31 as stated: after every open-side fill that leaves the grid unpaused
\* the batch holds a new open-side rung of GRID_AMOUNT, one active step
\* beyond the furthest remaining open rung or further by whole active steps
\* as far as needed to be strictly off current_price.
C31_EveryOpenFillAddsRung ==
    (OpenFilledDone /\ ~helper.state.grid_pause /\ open_orders_count(helper.state) > 0)
       => \E i \in 1..Len(helper.orders) :
             /\ helper.orders[i].is_ask = OPEN_SIDE_IS_ASK
             /\ helper.orders[i].amount = GRID_AMOUNT
             /\ NextOpenRung(helper.state, helper.orders[i].price,
                             MeasuredFrom(helper.state))

\* C31: the open rung computed after an open-side fill has size GRID_AMOUNT
\* and lies whole active steps (each rounded to cents) beyond the furthest
\* remaining open rung, or beyond current_price less one step when no open
\* rung remains: one step, or the least number of steps that brings it
\* strictly off current_price.  The batch holds it exactly when the grid is
\* not paused, fewer than GRID_COUNT open rungs remain and the paired close
\* rung is emitted.
C31_NextOpenRung ==
    OpenFilledDone =>
       /\ helper.new_open_order.is_ask = OPEN_SIDE_IS_ASK
       /\ helper.new_open_order.amount = GRID_AMOUNT
       /\ NextOpenRung(helper.state, helper.new_open_order.price,
                       MeasuredFrom(helper.state))
       /\ HasOpenRung(helper.orders)
             <=> /\ ~helper.state.grid_pause
                 /\ open_orders_count(helper.state) < GRID_COUNT
                 /\ helper.new_close_order # NoOrder
       /\ HasOpenRung(helper.orders) => helper.orders[1] = helper.new_open_order

\* two open rungs remain and the new rung had to be shifted past current_price
C31_Witness ==
    /\ OpenFilledDone
    /\ open_orders_count(helper.state) = 2
    /\ OffOpenSide(helper.new_open_order.price, helper.state.current_price)
    /\ ~StepsBeyond(helper.new_open_order.price, MeasuredFrom(helper.state), 1,
                    helper.state.active_grid_signle_price)

\* ------------------------------------------------------------------- C32
\* the preferred price of the paired close rung
PreferredClose(s, p) == p + Mult * s.base_grid_single_price

\* the preferred price is more than two base steps away from current_price
TooFar(s, p) == Abs(PreferredClose(s, p) - s.current_price) > 2 * s.base_grid_single_price

\* the open rung nearest to the price (highest buy, lowest sell), or one base
\* step to the open side of current_price when no open rung rests
NearestOpenOrDefault(s) ==
    IF open_orders_count(s) > 0
    THEN CHOOSE v \in Values(open_orders(s)) :
            \A u \in Values(open_orders(s)) : (v - u) * Mult >= 0
    ELSE s.current_price - Mult * s.base_grid_single_price

\* the price the paired close rung gets for a fill at p, before rounding
PairedClosePrice(s, p) ==
    IF TooFar(s, p)
    THEN NearestOpenOrDefault(s)
            + Mult * (s.base_grid_single_price + s.active_grid_signle_price)
    ELSE PreferredClose(s, p)

\* q lies strictly on the profitable side of the price cur
Profitable(q, cur) == IF ~OPEN_SIDE_IS_ASK THEN q > cur ELSE q < cur

\* C32: for an open-side fill at trade price p the paired close rung is
\* priced, to the cent, at p + base_step (LONG; p - base_step for SHORT), or,
\* when that is more than 2*base_step away from current_price, at nearest
\* open + base_step + active_step on the close side; it is emitted exactly
\* when that price is strictly on the profitable side of current_price, as a
\* close-side order of GRID_AMOUNT.
C32_PairedCloseRung ==
    (OpenFilledDone /\ helper.trade_price > 0) =>
       LET s == helper.state
           o == helper.new_close_order
       IN  \E q \in {Round2(PairedClosePrice(s, helper.trade_price))} :
              /\ Abs(q - PairedClosePrice(s, helper.trade_price)) <= HalfCent
              /\ o # NoOrder <=> Profitable(q, s.current_price)
              /\ o # NoOrder => o = Order(CLOSE_SIDE_IS_ASK, q, GRID_AMOUNT)

\* the fallback price has been used and the rung is emitted
C32_Witness ==
    /\ OpenFilledDone /\ helper.trade_price > 0
    /\ TooFar(helper.state, helper.trade_price)
    /\ open_orders_count(helper.state) > 0
    /\ helper.new_close_order # NoOrder
    /\ helper.new_close_order.price # PreferredClose(helper.state, helper.trade_price)

\* ------------------------------------------------------------------- C33
\* the step in which the close-side overflow pass of a reconcile sends its
\* cancel list
CloseOverflowDecides ==
    /\ pc'.ctl = "cancel" /\ loc'.ctl.cpass = 2
    /\ pc.ctl # "cancel" \/ loc.ctl.cpass # 2

\* the close-side grid orders the cancel list leaves in the book
LeftByCancel(s, ids) == DictDelAll(close_orders(s), Range(ids))

\* C33: when a reconcile finds count(close) > MAX_TOTAL_ORDERS, the
\* close-side overflow pass lists exactly count(close) - MAX_TOTAL_ORDERS
\* orders for cancelling, the ones furthest from the price, so that exactly
\* MAX_TOTAL_ORDERS close-side grid orders remain.
C33_CloseOverflowCancelsExcess ==
    [][CloseOverflowDecides =>
         LET left == LeftByCancel(ts', loc'.ctl.cancel_orders) IN
         /\ close_orders_count(ts') > MAX_TOTAL_ORDERS
         /\ Len(loc'.ctl.cancel_orders) = close_orders_count(ts') - MAX_TOTAL_ORDERS
         /\ Len(left) = MAX_TOTAL_ORDERS
         /\ \A i \in 1..Len(left) : \A id \in Range(loc'.ctl.cancel_orders) :
               \A j \in 1..Len(close_orders(ts')) :
                  close_orders(ts')[j].id = id
                     => (close_orders(ts')[j].price - left[i].price) * Mult >= 0]_vars

\* ------------------------------------------------------------------- C34
\* the fill section runs for a fill event whose id is not in the map of its
\* side
UnmatchedFill ==
    /\ FillSectionRuns
    /\ CurrentEvent.status = "closed" /\ CurrentEvent.filled > 0
    /\ ~Has(Book(ts, CurrentEvent.is_ask), CurrentEvent.id)

\* entry i of the book is as near to the price as any other entry
NearestTo(book, i, price) ==
    \A j \in 1..Len(book) : Abs(book[i].price - price) <= Abs(book[j].price - price)

\* the distance is at most max(0.6 * base step, 0.6)
WithinTolerance(p, q) ==
    10 * Abs(p - q) <= Max2(6 * ts.base_grid_single_price, 6 * 100000)

\* no replenishment pass is requested: the handler is done with the event
NoReplenishRequested ==
    /\ pc'.ws = "idle"
    /\ clock'.since_replenish = clock.since_replenish

\* C34: when the id of a fill event is not in the map of its side, the
\* handler removes from that map one order, one whose price is nearest to
\* the fill price, and only if the distance is at most
\* max(0.6 * base_step, 0.6); when it removes nothing, no replenishment is
\* requested and available_position and the three profit counters stay.
C34_UnmatchedFillByPrice ==
    [][UnmatchedFill =>
         LET e == CurrentEvent
             book == Book(ts, e.is_ask)
         IN  /\ Book(ts', ~e.is_ask) = Book(ts, ~e.is_ask)
             /\ \/ \E i \in 1..Len(book) :
                      /\ NearestTo(book, i, e.price)
                      /\ WithinTolerance(book[i].price, e.price)
                      /\ Book(ts', e.is_ask) = DictDel(book, book[i].id)
                \/ /\ \A i \in 1..Len(book) : ~WithinTolerance(book[i].price, e.price)
                   /\ Book(ts', e.is_ask) = book
                   /\ ts'.available_position_size = ts.available_position_size
                   /\ ProfitsSame
                   /\ NoReplenishRequested]_vars

\* a fill event delivered a second time, when its id was no longer in the
\* map, has removed a resting order by price and its replenishment pass is
\* placing orders
C34_Witness ==
    /\ pc.ws = "place" /\ loc.ws.filled_signal
    /\ loc.ws.ev.status = "closed" /\ loc.ws.ev.filled > 0
    /\ loc.ws.ev.id \in ts.recent_filled_order_ids
    /\ ts.filled_count > Cardinality(ts.recent_filled_order_ids)
    /\ ex.ndup = MaxRedeliveries

\* ------------------------------------------------------------------- C35
\* the control task is inside _risk_check: before the decision, or parking
\* placeholders for it
RiskChecking == pc.ctl \in {"start", "risk"} \/ Parking(World, "ctl")

\* the step in which _risk_check returns to run_grid_trading
RiskCheckEnds == RiskChecking /\ ~RiskChecking'

\* C35: when a risk check returns: if one of the two filters fired,
\* grid_pause is true; if none fired and the position was below
\* MAX_POSITION, grid_pause and pause_position_exist are false; if none fired
\* and the position was not below MAX_POSITION, grid_pause is as the check
\* found it.
C35_RiskCheckDecision ==
    [][RiskCheckEnds =>
         LET r == hist'.risk IN
         /\ r.run
         /\ r.fire => ts'.grid_pause
         /\ (~r.fire /\ r.below) => (~ts'.grid_pause /\ ~ts'.pause_position_exist)
         /\ (~r.fire /\ ~r.below) => (ts'.grid_pause = r.paused)]_vars

\* a periodic risk check in which no filter fired has lifted a pause
C35_Witness ==
    /\ hist.risk.run /\ ~hist.risk.fire /\ hist.risk.below /\ hist.risk.paused
    /\ pc.ctl = "sync" /\ counter = 0 /\ ts.is_running
    /\ ~ts.grid_pause /\ ~ts.pause_position_exist

\* ------------------------------------------------------------------- C36
\* the control task is in the initialize_grid_trading call of the startup
AtStartup ==
    /\ pc.ctl \in {"init_acct", "init_trades", "init_wait", "init_sync", "init_place"}
    /\ loc.ctl.ret = "startup"

\* the step in which the open-orders query of the startup is answered, with
\* the list of the orders that rest at the exchange
StartupSnapshot ==
    /\ AtStartup /\ pc.ctl = "init_sync" /\ pc'.ctl # "init_sync"
    /\ ex'.nfail = ex.nfail

\* the step in which the gateway accepts the initial ladder of the startup
StartupLadderPlaced ==
    /\ AtStartup /\ pc.ctl = "init_place"
    /\ ex'.nextId > ex.nextId

\* the orders with the ids first.. are GRID_COUNT open-side orders of
\* GRID_AMOUNT, the last ones of the list
IsLadder(orders, first) ==
    LET new == SelectSeq(orders, LAMBDA o : o.id >= first) IN
    /\ Len(new) = GRID_COUNT
    /\ \A j \in 1..Len(new) :
          /\ new[j].is_ask = OPEN_SIDE_IS_ASK /\ new[j].amount = GRID_AMOUNT
          /\ new[j].id = first + j - 1

\* C36 as stated: when the snapshot of the startup lists any open order, the
\* initial ladder is not placed.
C36_AnyOrderSkipsLadder ==
    [][(StartupSnapshot /\ ex.orders # <<>>) => pc'.ctl # "init_place"]_vars

\* C36: at startup, when the snapshot leaves a grid order in buy_orders or
\* sell_orders (any listed order but a close-side order larger than
\* GRID_AMOUNT) the initial ladder is not requested; when it leaves none and
\* the grid is not paused the ladder is requested, and the startup places it
\* once, as GRID_COUNT open-side orders, and goes on to the control loop;
\* when the startup risk check has paused the grid, grid_pause and
\* pause_position_exist are true throughout the startup and neither a ladder
\* nor a placeholder order is requested or placed.
C36_StartupLadder ==
    [][/\ StartupSnapshot =>
            LET grid == open_orders_count(ts') + close_orders_count(ts') IN
            /\ grid = Cardinality({i \in 1..Len(ex.orders) :
                                     ~(ex.orders[i].is_ask = CLOSE_SIDE_IS_ASK
                                       /\ ex.orders[i].amount > GRID_AMOUNT)})
            /\ grid > 0 => pc'.ctl # "init_place"
            /\ (grid = 0 /\ ~ts'.grid_pause) => pc'.ctl = "init_place"
            /\ ts'.grid_pause => pc'.ctl # "init_place"
       /\ StartupLadderPlaced =>
            /\ IsLadder(ex'.orders, ex.nextId)
            /\ ex'.nextId = ex.nextId + GRID_COUNT
            /\ pc'.ctl = "sleep"
       /\ (AtStartup' /\ hist'.risk.fire) =>
            /\ ts'.grid_pause /\ ts'.pause_position_exist
            /\ pc'.ctl # "init_place"
            /\ hist'.parked = {} /\ ex'.nextId = ex.nextId]_vars

\* a restart on an account with only a placeholder order resting: the
\* startup has placed the initial ladder next to it
C36_Witness ==
    /\ pc.ctl = "sleep" /\ counter = 0 /\ clock.sleeps = 0
    /\ ~hist.risk.fire
    /\ Len(ex.orders) = 1 + GRID_COUNT
    /\ ex.orders[1].amount > GRID_AMOUNT
    /\ IsLadder(ex.orders, 2)

\* ------------------------------------------------------------------- C37
\* the control task is inside the block of run_grid_trading lines 451-452
InBlock == InReconcile \/ InReplenish("ctl")

\* the step in which the control task, holding the lock, reads the clock at
\* line 450
BlockEntered == ~InBlock /\ (pc'.ctl = "sync" \/ counter' = counter + 1)

\* C37: in each iteration of the control loop, check_current_orders followed
\* by one replenishment pass runs exactly when more than 5 s have passed
\* since the last replenishment of the websocket task; the replenishment
\* pass starts after the reconcile and its pruning are over, and from the
\* start of the reconcile to the end of the pass the control task holds
\* replenish_grid_lock without a break.
C37_PeriodicPassUnderOneHold ==
    [][/\ BlockEntered =>
            /\ pc'.ctl = "sync" <=> clock.since_replenish = "long"
            /\ pc'.ctl = "sync" => replenish_grid_lock' = "ctl"
            /\ pc'.ctl # "sync" => (pc'.ctl = "sleep" /\ replenish_grid_lock' # "ctl")
       /\ InBlock =>
            /\ replenish_grid_lock = "ctl"
            /\ InBlock' => replenish_grid_lock' = "ctl"
            /\ ~InBlock' => /\ pc'.ctl = "sleep" /\ counter' = counter + 1
                            /\ replenish_grid_lock' # "ctl"
       /\ InReplenish("ctl") => ~InReconcile'
       /\ (InReconcile /\ InReplenish("ctl")') => hist'.last.run]_vars

\* the control task has reconciled and is placing an order of its
\* replenishment pass while the websocket task waits for the lock
C37_Witness ==
    /\ pc.ctl = "place" /\ InReplenish("ctl")
    /\ replenish_grid_lock = "ctl" /\ lock_waiter = "ws"
    /\ hist.last.run /\ hist.rcancels > 0

\* ------------------------------------------------------------------- C38
\* the inserted key was not in the cache before
FreshKey == TrimDone /\ helper.key \notin helper.cache

\* an entry that was in the cache before the insertion is still there
OlderKeyRemains == helper.cache \cap helper.trimmed # {}

\* C38: when a cache exceeds its cap, the evicted entries are the oldest
\* inserted ones, so the key inserted by the current event is never evicted
\* while an older key remains in the cache.
C38_FreshKeyOutlivesOlder ==
    (FreshKey /\ OlderKeyRemains) => helper.key \in helper.trimmed


\* ------------------------------------------------------------------- C39
LockWaits == {"lock_wait", "lock_wait2"}

\* the step leaves task t asking for the lock
Requests(t) == pc'[t] \in LockWaits /\ pc'[t] # pc[t]

\* C39: the system never deadlocks on replenish_grid_lock: no task asks for
\* the lock while it holds it, whenever a task waits for the lock the holder
\* releases it in the end, and every streamed order update is processed in the
\* end: it is taken off the stream and its handler returns.
C39_NoDeadlockOnLock ==
    /\ [][\A t \in Tasks : Requests(t) => replenish_grid_lock' # t]_vars
    /\ \A t \in Tasks : (lock_waiter = t) ~> (lock_waiter = "none" /\ replenish_grid_lock = t)
    /\ \A t \in Tasks : (replenish_grid_lock = t) ~> (replenish_grid_lock # t)
    /\ \A n \in 1..MaxQueue :
          (Len(ex.wsq) = n) ~> (Len(ex.wsq) < n \/ pc.ctl = "stopped")
    /\ (pc.ws # "idle") ~> (pc.ws = "idle")

\* the control task is queued on the lock while the websocket task places the
\* orders of its replenishment and a further order update waits in the stream
C39_Witness ==
    /\ lock_waiter = "ctl" /\ pc.ctl = "lock_wait"
    /\ replenish_grid_lock = "ws" /\ pc.ws = "place"
    /\ ex.wsq # <<>>

\* ------------------------------------------------------------------- C40
FirstFillDone == helper.fn = "replenish_grid" /\ helper.done

\* C40: every replenishment pass terminates: in every state reachable after a
\* successful initialization the active step is positive, and the
\* price-adjustment loops of the next open rung and of the close-side top-up
\* end after finitely many iterations.
C40_PassTerminates ==
    FirstFillDone =>
       /\ helper.state.active_grid_signle_price > 0
       /\ helper.new_open_order.price # Hang
       /\ helper.config_close_order.price # Hang

====
